---- MODULE Spec2Model ----
(***************************************************************************)
(* A state-machine model of the gesture interaction engine of src/game.js  *)
(* (class Game): the per-frame hand pipeline (_updateHands and what it     *)
(* calls), the interaction-mode switch, the drag / rotate / zoom           *)
(* controllers, the hover highlighter, auto-rotation, start-up and         *)
(* restart.                                                                *)
(*                                                                         *)
(* Geometry.  Landmark coordinates are integers in units of 1/LmUnit of    *)
(* the video frame (the provider's normalized value times LmUnit).  Screen *)
(* positions are integer canvas pixels.  Distances are compared squared,   *)
(* which is exact for the comparisons the code makes on Euclidean          *)
(* distances.  The detector's output is drawn from a small set of hand     *)
(* poses (HandPoses); what the code computes from a pose (projection,      *)
(* pinch distance, fist classification, node picking, hover) is computed   *)
(* here as the code computes it.                                           *)
(*                                                                         *)
(* JavaScript runs every callback to completion.  One frame of             *)
(* _updateHands is split into steps (pc) so that the order of its stages   *)
(* is visible; the UI, speech, physics and video callbacks are enabled     *)
(* only between frames (pc = "idle").                                      *)
(***************************************************************************)
EXTENDS Integers, Sequences, FiniteSets, TLC

VARIABLES
    game,        \* the fields of the Game object (this.*), scene included
    animating,   \* _animate has been started (requestAnimationFrame loop)
    setupDone,   \* the awaits of _init have settled (either way)
    videoTime,   \* videoElement.currentTime
    pc,          \* position inside _updateHands: idle, hand0, hand1, hover, global
    results,     \* results.landmarks?.[i] is present, as far as the frame has read it
    seen,        \* history: the interactionMode each stage of the frame read
    last         \* history: the callback that ran last, and what it met

vars == <<game, animating, setupDone, videoTime, pc, results, seen, last>>

----------------------------------------------------------------------------
\* Bounds of the model.

\* Video frame times run 0..MaxVideoTime.
MaxVideoTime == 2

----------------------------------------------------------------------------
\* Program constants.

PINCH_SCREEN == 50
NODE_PICK_SCREEN == 80
HOVER_SCREEN == 40
MIN_FINGERS_CURLED_FOR_FIST == 3
\* FIST_CURL_RATIO = 0.75 = FIST_CURL_NUM / FIST_CURL_DEN
FIST_CURL_NUM == 3
FIST_CURL_DEN == 4
MIN_CAMERA_DISTANCE_GRAPH == 100
MAX_CAMERA_DISTANCE_GRAPH == 1100
\* forceGraph.cameraPosition({ z: 500 })
InitialCameraDistance == 500

\* Landmark units per video frame extent.
LmUnit == 400
\* renderDiv.clientWidth / clientHeight, videoElement.videoWidth / videoHeight (px).
Canvas == [width |-> 400, height |-> 400]
Video == [width |-> 400, height |-> 400]

\* JavaScript's null / undefined, one per kind of value: a mode name, a node,
\* a number, an object (vector, landmark list, parameter record).
Null == "null"
NoNode == 0
NoNumber == -1
NoObject == [isNull |-> TRUE]
Modes == {"drag", "rotate", "zoom"}
ModeOrder == <<"drag", "rotate", "zoom">>
HandIdx == {0, 1}
NodeIds == {1, 2}
NodeOrder == <<1, 2>>

Vec2(x, y) == [x |-> x, y |-> y]
Vec3(x, y, z) == [x |-> x, y |-> y, z |-> z]
Abs(a) == IF a < 0 THEN -a ELSE a
Max(a, b) == IF a > b THEN a ELSE b
Min(a, b) == IF a < b THEN a ELSE b
\* Variant of THREE.MathUtils.clamp with the two limits exchanged.
ClampSwapped(v, lo, hi) == Max(hi, Min(lo, v))
Clamp(v, lo, hi) == Max(lo, Min(hi, v))

distanceToSquared(p, q) == (p.x - q.x) * (p.x - q.x) + (p.y - q.y) * (p.y - q.y)

get3DDistanceSq(p1, p2) ==
    (p1.x - p2.x) * (p1.x - p2.x) + (p1.y - p2.y) * (p1.y - p2.y)
        + (p1.z - p2.z) * (p1.z - p2.z)

\* Math.sqrt, rounded down (exact on the squares the model meets).
RECURSIVE SqrtFrom(_, _)
SqrtFrom(n, x) ==
    LET y == (x + n \div x) \div 2
    IN IF y >= x THEN x ELSE SqrtFrom(n, y)
Sqrt(n) == IF n = 0 THEN 0 ELSE SqrtFrom(n, n)

----------------------------------------------------------------------------
\* Coordinate remapper.

\* A variant of _getVisibleVideoParameters that takes the whole cropped extent
\* off one side instead of half of it off each.
getVisibleVideoParametersOneSided(vNatW, vNatH, rW, rH) ==
    IF vNatW = 0 \/ vNatH = 0 \/ rW = 0 \/ rH = 0 THEN NoObject
    ELSE LET wide == vNatW * rH > rW * vNatH
             croppedX == vNatW - (rW * vNatH) \div rH
             croppedY == vNatH - (rH * vNatW) \div rW
         IN IF wide
            THEN [offsetX |-> croppedX, offsetY |-> 0,
                  visibleWidth |-> vNatW - croppedX, visibleHeight |-> vNatH,
                  videoNaturalWidth |-> vNatW, videoNaturalHeight |-> vNatH]
            ELSE [offsetX |-> 0, offsetY |-> croppedY,
                  visibleWidth |-> vNatW, visibleHeight |-> vNatH - croppedY,
                  videoNaturalWidth |-> vNatW, videoNaturalHeight |-> vNatH]

\* _getVisibleVideoParameters: NoObject when the frame or the surface has no extent.
getVisibleVideoParameters(vNatW, vNatH, rW, rH) ==
    IF vNatW = 0 \/ vNatH = 0 \/ rW = 0 \/ rH = 0 THEN NoObject
    ELSE LET wide == vNatW * rH > rW * vNatH
             croppedX == vNatW - (rW * vNatH) \div rH
             croppedY == vNatH - (rH * vNatW) \div rW
             p == IF wide
                  THEN [offsetX |-> croppedX \div 2, offsetY |-> 0,
                        visibleWidth |-> vNatW - croppedX, visibleHeight |-> vNatH,
                        videoNaturalWidth |-> vNatW, videoNaturalHeight |-> vNatH]
                  ELSE [offsetX |-> 0, offsetY |-> croppedY \div 2,
                        visibleWidth |-> vNatW, visibleHeight |-> vNatH - croppedY,
                        videoNaturalWidth |-> vNatW, videoNaturalHeight |-> vNatH]
         IN IF p.visibleWidth <= 0 \/ p.visibleHeight <= 0
            THEN [offsetX |-> 0, offsetY |-> 0,
                  visibleWidth |-> vNatW, visibleHeight |-> vNatH,
                  videoNaturalWidth |-> vNatW, videoNaturalHeight |-> vNatH]
            ELSE p

\* One axis of _projectLandmarkToScreen: crop, clamp to [0,1], mirror, centre.
projectAxis(c, natural, offset, visible, canvas) ==
    LET num == Clamp(c * natural - offset * LmUnit, 0, visible * LmUnit)
    IN canvas - (num * canvas) \div (visible * LmUnit) - canvas \div 2

projectLandmarkToScreen(landmark, videoParams, canvasWidth, canvasHeight) ==
    IF landmark = NoObject \/ videoParams = NoObject THEN NoObject
    ELSE Vec2(projectAxis(landmark.x, videoParams.videoNaturalWidth,
                          videoParams.offsetX, videoParams.visibleWidth, canvasWidth),
              projectAxis(landmark.y, videoParams.videoNaturalHeight,
                          videoParams.offsetY, videoParams.visibleHeight, canvasHeight))

\* The projection parameters of a frame whose surface has extent.
VideoParams == getVisibleVideoParameters(Video.width, Video.height, Canvas.width, Canvas.height)

Project(landmark) == projectLandmarkToScreen(landmark, VideoParams, Canvas.width, Canvas.height)

\* _worldToScreen / _screenToWorld with the graph camera looking down the z
\* axis at the scale of one world unit per pixel.
worldToScreen(worldPos) == Vec2(worldPos.x, worldPos.y)

screenToWorld(screenPos, targetZ) == Vec3(screenPos.x, screenPos.y, targetZ)

----------------------------------------------------------------------------
\* Gesture classifiers.

\* Variant of _isFist that is content with two curled fingers.
isFistOnTwo(landmarks) ==
    LET refDistSq == get3DDistanceSq(landmarks.wrist, landmarks.middleMcp)
        tips == <<landmarks.indexTip, landmarks.middleTip, landmarks.ringTip, landmarks.pinkyTip>>
        curled == {k \in 1..4 :
                     FIST_CURL_DEN * FIST_CURL_DEN * get3DDistanceSq(tips[k], landmarks.wrist)
                       < FIST_CURL_NUM * FIST_CURL_NUM * refDistSq}
    IN IF refDistSq = 0 THEN FALSE
       ELSE Cardinality(curled) >= 2

\* _isFist on the landmarks it reads.
isFist(landmarks) ==
    LET refDistSq == get3DDistanceSq(landmarks.wrist, landmarks.middleMcp)
        tips == <<landmarks.indexTip, landmarks.middleTip, landmarks.ringTip, landmarks.pinkyTip>>
        curled == {k \in 1..4 :
                     FIST_CURL_DEN * FIST_CURL_DEN * get3DDistanceSq(tips[k], landmarks.wrist)
                       < FIST_CURL_NUM * FIST_CURL_NUM * refDistSq}
    IN IF refDistSq = 0 THEN FALSE
       ELSE Cardinality(curled) >= MIN_FINGERS_CURLED_FOR_FIST

----------------------------------------------------------------------------
\* The detector's outputs: hand poses around an anchor point of the screen.

\* The landmark that projects to screen point (sx, sy), at depth z.
At(sx, sy, z) == Vec3(Canvas.width \div 2 - sx, Canvas.height \div 2 - sy, z)

\* Anchor points: 60 px left of node home 1 and 60 px left of node home 2.
Anchors == {Vec2(-160, 0), Vec2(40, 0)}

\* Where the physics simulation puts a free node: node n starts at NodeHome[n].
NodeHome == <<Vec3(-100, 0, 0), Vec3(100, 0, 0)>>

Pose(a, shape) ==
    LET gap == IF shape = "pinch" THEN 20 ELSE 40
        tip == IF shape = "fist" THEN 30 ELSE 110
    IN [wrist     |-> At(a.x, a.y - 100, 0),
        middleMcp |-> At(a.x, a.y - 40, 0),
        thumbTip  |-> At(a.x - gap, a.y, 0),
        indexTip  |-> At(a.x + gap, a.y, 0),
        middleTip |-> At(a.x, a.y - 100 + tip, 0),
        ringTip   |-> At(a.x + 10, a.y - 100 + tip, 0),
        pinkyTip  |-> At(a.x + 20, a.y - 100 + tip, 0)]

\* A pinching hand has its other fingers stretched; a fist keeps thumb and index apart.
HandPoses == {Pose(a, shape) : a \in Anchors, shape \in {"pinch", "fist"}}

----------------------------------------------------------------------------
\* The Game object after its constructor has run (the synchronous part of
\* _init included: _setupEventListeners, _setupThree, _setupForceGraph).

InitHand ==
    [landmarks |-> NoObject, isPinching |-> FALSE, pinchScreenPos |-> Vec2(0, 0),
     isFistClosed |-> FALSE, lastFistScreenPos |-> Vec2(0, 0)]

InitNode == [pos |-> NoObject, fixed |-> NoObject]

\* graphOk: _setupForceGraph ran through; hasGraph: this.forceGraph was assigned.
\* nodeLabels: the label that nodeThreeObject builds for a node (l.1010-1015)
\* can be reached as node.threeObject.element; the graph library decides that.
InitGame(graphOk, hasGraph) ==
    [gameState |-> IF graphOk THEN "loading" ELSE "error",
     handLandmarker |-> FALSE,
     lastVideoTime |-> -1,
     hands |-> [i \in HandIdx |-> InitHand],
     forceGraph |-> hasGraph,
     nodes |-> [n \in NodeIds |-> InitNode],
     cameraDistance |-> InitialCameraDistance,
     reheat |-> FALSE,
     orbitDelta |-> NoObject,
     interactionMode |-> "drag",
     draggedNodeInfo |-> [handIndex |-> -1, node |-> NoNode,
                          screenOffset |-> Vec2(0, 0),
                          initialNodeWorldPos |-> Vec3(0, 0, 0)],
     currentlyHoveredNode |-> NoNode,
     hoverStyled |-> {},
     nodeLabels |-> hasGraph,
     initialZoomWristDistance |-> NoNumber,
     initialZoomCameraDistance |-> NoNumber,
     isAutoRotating |-> FALSE]

----------------------------------------------------------------------------
\* Drag controller.

\* The forEach of _handlePinchStart over the nodes from position k on:
\* best is closestNode, bestSq is minDistanceSq (NoNumber for Infinity).
\* Variant of the search of _handlePinchStart that compares with <= .
RECURSIVE closestNodeFromInclusive(_, _, _, _, _)
closestNodeFromInclusive(g, pinchScreenPos, k, best, bestSq) ==
    IF k > Len(NodeOrder) THEN best
    ELSE LET n == NodeOrder[k]
             node == g.nodes[n]
             distanceSq == distanceToSquared(pinchScreenPos, worldToScreen(node.pos))
         IN IF node.pos = NoObject
            THEN closestNodeFromInclusive(g, pinchScreenPos, k + 1, best, bestSq)
            ELSE IF (bestSq = NoNumber \/ distanceSq <= bestSq)
                     /\ distanceSq <= NODE_PICK_SCREEN * NODE_PICK_SCREEN
                 THEN closestNodeFromInclusive(g, pinchScreenPos, k + 1, n, distanceSq)
                 ELSE closestNodeFromInclusive(g, pinchScreenPos, k + 1, best, bestSq)

RECURSIVE closestNodeFrom(_, _, _, _, _)
closestNodeFrom(g, pinchScreenPos, k, best, bestSq) ==
    IF k > Len(NodeOrder) THEN best
    ELSE LET n == NodeOrder[k]
             node == g.nodes[n]
             distanceSq == distanceToSquared(pinchScreenPos, worldToScreen(node.pos))
         IN IF node.pos = NoObject
            THEN closestNodeFrom(g, pinchScreenPos, k + 1, best, bestSq)
            ELSE IF (bestSq = NoNumber \/ distanceSq < bestSq)
                     /\ distanceSq < NODE_PICK_SCREEN * NODE_PICK_SCREEN
                 THEN closestNodeFrom(g, pinchScreenPos, k + 1, n, distanceSq)
                 ELSE closestNodeFrom(g, pinchScreenPos, k + 1, best, bestSq)

\* Variant of the pick of _handlePinchStart that leaves the node unpinned.
pickClosestNodeWithoutPin(g, handIndex, pinchScreenPos) ==
    LET closestNode == closestNodeFrom(g, pinchScreenPos, 1, NoNode, NoNumber)
    IN IF closestNode = NoNode THEN g
       ELSE LET pos == g.nodes[closestNode].pos
                nodeScreenPos == worldToScreen(pos)
            IN [g EXCEPT
                  !.draggedNodeInfo =
                      [handIndex |-> handIndex, node |-> closestNode,
                       screenOffset |-> Vec2(nodeScreenPos.x - pinchScreenPos.x,
                                             nodeScreenPos.y - pinchScreenPos.y),
                       initialNodeWorldPos |-> pos]]

\* _handlePinchStart after its guard: the search and the pick.
pickClosestNode(g, handIndex, pinchScreenPos) ==
    LET closestNode == closestNodeFrom(g, pinchScreenPos, 1, NoNode, NoNumber)
    IN IF closestNode = NoNode THEN g
       ELSE LET pos == g.nodes[closestNode].pos
                nodeScreenPos == worldToScreen(pos)
            IN [g EXCEPT
                  !.draggedNodeInfo =
                      [handIndex |-> handIndex, node |-> closestNode,
                       screenOffset |-> Vec2(nodeScreenPos.x - pinchScreenPos.x,
                                             nodeScreenPos.y - pinchScreenPos.y),
                       initialNodeWorldPos |-> pos],
                  !.nodes[closestNode].fixed = pos]

\* Variant of _handlePinchStart whose guard does not look at draggedNodeInfo.node.
handlePinchStartWhileHeld(g, handIndex, pinchScreenPos) ==
    IF g.interactionMode # "drag" \/ ~g.forceGraph THEN g
    ELSE pickClosestNode(g, handIndex, pinchScreenPos)

handlePinchStart(g, handIndex, pinchScreenPos) ==
    IF g.interactionMode # "drag" \/ ~g.forceGraph \/ g.draggedNodeInfo.node # NoNode
    THEN g
    ELSE pickClosestNode(g, handIndex, pinchScreenPos)

\* Variant of _handlePinchEnd that leaves the owner index of draggedNodeInfo.
handlePinchEndKeepingOwner(g, handIndex) ==
    IF g.interactionMode = "drag"
         /\ g.draggedNodeInfo.handIndex = handIndex
         /\ g.draggedNodeInfo.node # NoNode
    THEN [g EXCEPT !.nodes[g.draggedNodeInfo.node].fixed = NoObject,
                   !.reheat = TRUE,
                   !.draggedNodeInfo.node = NoNode]
    ELSE g

\* Variant of _handlePinchEnd that clears draggedNodeInfo only.
handlePinchEndKeepingPin(g, handIndex) ==
    IF g.interactionMode = "drag"
         /\ g.draggedNodeInfo.handIndex = handIndex
         /\ g.draggedNodeInfo.node # NoNode
    THEN [g EXCEPT !.draggedNodeInfo.handIndex = -1,
                   !.draggedNodeInfo.node = NoNode]
    ELSE g

handlePinchEnd(g, handIndex) ==
    IF g.interactionMode = "drag"
         /\ g.draggedNodeInfo.handIndex = handIndex
         /\ g.draggedNodeInfo.node # NoNode
    THEN [g EXCEPT !.nodes[g.draggedNodeInfo.node].fixed = NoObject,
                   !.reheat = TRUE,
                   !.draggedNodeInfo.handIndex = -1,
                   !.draggedNodeInfo.node = NoNode]
    ELSE g

\* Variant of _handlePinchMove that puts the node at the pinch point itself.
handlePinchMoveToPinch(g, handIndex, currentPinchScreenPos) ==
    IF g.interactionMode # "drag" \/ ~g.forceGraph
         \/ g.draggedNodeInfo.node = NoNode
         \/ g.draggedNodeInfo.handIndex # handIndex
    THEN g
    ELSE LET newWorldPos == screenToWorld(currentPinchScreenPos,
                                          g.draggedNodeInfo.initialNodeWorldPos.z)
         IN [g EXCEPT !.nodes[g.draggedNodeInfo.node] =
                          [pos |-> newWorldPos, fixed |-> newWorldPos],
                      !.reheat = TRUE]

handlePinchMove(g, handIndex, currentPinchScreenPos) ==
    IF g.interactionMode # "drag" \/ ~g.forceGraph
         \/ g.draggedNodeInfo.node = NoNode
         \/ g.draggedNodeInfo.handIndex # handIndex
    THEN g
    ELSE LET targetScreenPos ==
                 Vec2(currentPinchScreenPos.x + g.draggedNodeInfo.screenOffset.x,
                      currentPinchScreenPos.y + g.draggedNodeInfo.screenOffset.y)
             newWorldPos == screenToWorld(targetScreenPos,
                                          g.draggedNodeInfo.initialNodeWorldPos.z)
         IN [g EXCEPT !.nodes[g.draggedNodeInfo.node] =
                          [pos |-> newWorldPos, fixed |-> newWorldPos],
                      !.reheat = TRUE]

\* Variant of the pinch test that counts a distance of exactly PINCH_SCREEN.
pinchDetectedInclusive(thumbTipScreen, indexTipScreen) ==
    distanceToSquared(thumbTipScreen, indexTipScreen) <= PINCH_SCREEN * PINCH_SCREEN

\* distance < THRESHOLDS.PINCH_SCREEN, on the squares.
pinchDetected(thumbTipScreen, indexTipScreen) ==
    distanceToSquared(thumbTipScreen, indexTipScreen) < PINCH_SCREEN * PINCH_SCREEN

\* A variant of _updateDragMode that attempts the pick on every frame on which
\* the hand pinches and nothing is held, not only on the rising edge.
updateDragModePickingWhileHeld(g, handIndex) ==
    LET hand == g.hands[handIndex]
        thumbTipScreen == Project(hand.landmarks.thumbTip)
        indexTipScreen == Project(hand.landmarks.indexTip)
        prevPinchState == hand.isPinching
        pinching == pinchDetected(thumbTipScreen, indexTipScreen)
        mid == Vec2((thumbTipScreen.x + indexTipScreen.x) \div 2,
                    (thumbTipScreen.y + indexTipScreen.y) \div 2)
        g1 == [g EXCEPT !.hands[handIndex].isPinching = pinching,
                        !.hands[handIndex].pinchScreenPos = IF pinching THEN mid ELSE @]
    IN IF pinching /\ (~prevPinchState \/ g1.draggedNodeInfo.node = NoNode)
       THEN handlePinchStart(g1, handIndex, mid)
       ELSE IF ~pinching /\ prevPinchState THEN handlePinchEnd(g1, handIndex)
       ELSE IF pinching /\ prevPinchState
                 /\ g1.draggedNodeInfo.handIndex = handIndex
                 /\ g1.draggedNodeInfo.node # NoNode
            THEN handlePinchMove(g1, handIndex, mid)
            ELSE g1

updateDragMode(g, handIndex) ==
    LET hand == g.hands[handIndex]
        thumbTipScreen == Project(hand.landmarks.thumbTip)
        indexTipScreen == Project(hand.landmarks.indexTip)
        prevPinchState == hand.isPinching
        pinching == pinchDetected(thumbTipScreen, indexTipScreen)
        mid == Vec2((thumbTipScreen.x + indexTipScreen.x) \div 2,
                    (thumbTipScreen.y + indexTipScreen.y) \div 2)
        g1 == [g EXCEPT !.hands[handIndex].isPinching = pinching,
                        !.hands[handIndex].pinchScreenPos = IF pinching THEN mid ELSE @]
    IN IF pinching /\ ~prevPinchState THEN handlePinchStart(g1, handIndex, mid)
       ELSE IF ~pinching /\ prevPinchState THEN handlePinchEnd(g1, handIndex)
       ELSE IF pinching /\ prevPinchState
                 /\ g1.draggedNodeInfo.handIndex = handIndex
                 /\ g1.draggedNodeInfo.node # NoNode
            THEN handlePinchMove(g1, handIndex, mid)
            ELSE g1

----------------------------------------------------------------------------
\* Rotate controller and auto-rotation.

\* Variant of _toggleAutoRotation that does not stop on forceState false.
toggleAutoRotationNeverOff(g, forceState) ==
    IF ~g.forceGraph \/ forceState = "off" THEN g
    ELSE [g EXCEPT !.isAutoRotating =
                       IF forceState = "toggle" THEN ~g.isAutoRotating ELSE TRUE]

\* forceState is "on", "off" or "toggle" (true, false, no argument).
toggleAutoRotation(g, forceState) ==
    IF ~g.forceGraph THEN g
    ELSE [g EXCEPT !.isAutoRotating =
                       IF forceState = "toggle" THEN ~g.isAutoRotating
                       ELSE forceState = "on"]

\* The orbit itself belongs to the scene; the step handed to it is recorded.
handleFistRotation(g, currentPos, lastPos) ==
    IF ~g.forceGraph THEN g
    ELSE [g EXCEPT !.orbitDelta = Vec2(currentPos.x - lastPos.x, currentPos.y - lastPos.y)]

\* A variant of _updateRotateMode that keeps the reference where the fist
\* closed instead of moving it along with the hand.
updateRotateModeFixedReference(g, handIndex) ==
    LET hand == g.hands[handIndex]
        prevFistState == hand.isFistClosed
        fist == isFist(hand.landmarks)
        fistScreenPos == Project(hand.landmarks.wrist)
        g1 == [g EXCEPT !.hands[handIndex].isFistClosed = fist]
    IN IF fist /\ ~prevFistState
       THEN LET g2 == [g1 EXCEPT !.hands[handIndex].lastFistScreenPos = fistScreenPos]
            IN IF g2.isAutoRotating THEN toggleAutoRotation(g2, "off") ELSE g2
       ELSE IF fist /\ prevFistState
            THEN handleFistRotation(g1, fistScreenPos, hand.lastFistScreenPos)
            ELSE g1

updateRotateMode(g, handIndex) ==
    LET hand == g.hands[handIndex]
        prevFistState == hand.isFistClosed
        fist == isFist(hand.landmarks)
        fistScreenPos == Project(hand.landmarks.wrist)
        g1 == [g EXCEPT !.hands[handIndex].isFistClosed = fist]
    IN IF fist /\ ~prevFistState
       THEN LET g2 == [g1 EXCEPT !.hands[handIndex].lastFistScreenPos = fistScreenPos]
            IN IF g2.isAutoRotating THEN toggleAutoRotation(g2, "off") ELSE g2
       ELSE IF fist /\ prevFistState
            THEN [handleFistRotation(g1, fistScreenPos, hand.lastFistScreenPos)
                      EXCEPT !.hands[handIndex].lastFistScreenPos = fistScreenPos]
            ELSE g1

----------------------------------------------------------------------------
\* Zoom controller.

\* JavaScript's !v for a number or null.
Falsy(v) == v = NoNumber \/ v = 0

\* The guard of _handleZoomMode: a hand or the graph is missing.
zoomUnavailable(g, res) ==
    \/ ~res[0] \/ ~res[1]
    \/ g.hands[0].landmarks = NoObject \/ g.hands[1].landmarks = NoObject
    \/ ~g.forceGraph

\* A variant of the zoom step whose scale factor is not raised to
\* ZOOM_SENSITIVITY.
zoomByWristDistanceLinear(g) ==
         LET wrist0 == g.hands[0].landmarks.wrist
             wrist1 == g.hands[1].landmarks.wrist
             currentWristDist == Sqrt(get3DDistanceSq(wrist0, wrist1))
             currentCamDist == g.cameraDistance
             initW == g.initialZoomWristDistance
             initC == g.initialZoomCameraDistance
         IN IF Falsy(initW) \/ Falsy(initC)
            THEN [g EXCEPT !.initialZoomWristDistance = currentWristDist,
                           !.initialZoomCameraDistance = currentCamDist]
            ELSE IF initW * 1000 < LmUnit
            THEN [g EXCEPT !.initialZoomWristDistance = Max(currentWristDist, LmUnit \div 100),
                           !.initialZoomCameraDistance = currentCamDist]
            ELSE LET newCamDist ==
                         Clamp((initC * currentWristDist) \div initW,
                               MIN_CAMERA_DISTANCE_GRAPH, MAX_CAMERA_DISTANCE_GRAPH)
                 IN IF 2 * Abs(newCamDist - currentCamDist) > 1
                    THEN [g EXCEPT !.cameraDistance = newCamDist]
                    ELSE g

\* _handleZoomMode after its guard.
zoomByWristDistance(g) ==
         LET wrist0 == g.hands[0].landmarks.wrist
             wrist1 == g.hands[1].landmarks.wrist
             currentWristDist == Sqrt(get3DDistanceSq(wrist0, wrist1))
             currentCamDist == g.cameraDistance
             initW == g.initialZoomWristDistance
             initC == g.initialZoomCameraDistance
         IN IF Falsy(initW) \/ Falsy(initC)
            THEN [g EXCEPT !.initialZoomWristDistance = currentWristDist,
                           !.initialZoomCameraDistance = currentCamDist]
            ELSE IF initW * 1000 < LmUnit
            THEN [g EXCEPT !.initialZoomWristDistance = Max(currentWristDist, LmUnit \div 100),
                           !.initialZoomCameraDistance = currentCamDist]
            ELSE LET newCamDist ==
                         Clamp((initC * currentWristDist * currentWristDist)
                                   \div (initW * initW),
                               MIN_CAMERA_DISTANCE_GRAPH, MAX_CAMERA_DISTANCE_GRAPH)
                 IN IF 2 * Abs(newCamDist - currentCamDist) > 1
                    THEN [g EXCEPT !.cameraDistance = newCamDist]
                    ELSE g

\* Variant of _handleZoomMode whose guard returns without clearing the baseline.
handleZoomModeKeepingBaseline(g, res) ==
    IF zoomUnavailable(g, res) THEN g ELSE zoomByWristDistance(g)

\* A variant of _handleZoomMode that, when a hand is missing, also puts the
\* camera back to the distance it had when the baseline was captured.
handleZoomModeRestoringCamera(g, res) ==
    IF zoomUnavailable(g, res)
    THEN [g EXCEPT !.initialZoomWristDistance = NoNumber,
                   !.initialZoomCameraDistance = NoNumber,
                   !.cameraDistance = IF Falsy(g.initialZoomCameraDistance)
                                      THEN @ ELSE g.initialZoomCameraDistance]
    ELSE zoomByWristDistance(g)

handleZoomMode(g, res) ==
    IF zoomUnavailable(g, res)
    THEN [g EXCEPT !.initialZoomWristDistance = NoNumber,
                   !.initialZoomCameraDistance = NoNumber]
    ELSE zoomByWristDistance(g)

\* The forEach of _handleGlobalInteractionLogic, hands k..1.
RECURSIVE clearGesturesFrom(_, _)
clearGesturesFrom(g, k) ==
    IF k > 1 THEN g
    ELSE LET g1 == IF g.hands[k].isPinching THEN handlePinchEnd(g, k) ELSE g
         IN clearGesturesFrom([g1 EXCEPT !.hands[k].isPinching = FALSE,
                                         !.hands[k].isFistClosed = FALSE], k + 1)

handleGlobalInteractionLogic(g, res) ==
    IF g.interactionMode = "zoom"
    THEN clearGesturesFrom(handleZoomMode(g, res), 0)
    ELSE g

----------------------------------------------------------------------------
\* Per-hand stage.

updateHandInteraction(g, handIndex) ==
    IF g.interactionMode = "drag"
    THEN [updateDragMode(g, handIndex) EXCEPT !.hands[handIndex].isFistClosed = FALSE]
    ELSE IF g.interactionMode = "rotate"
    THEN LET g1 == updateRotateMode(g, handIndex)
             g2 == IF g1.hands[handIndex].isPinching THEN handlePinchEnd(g1, handIndex) ELSE g1
         IN [g2 EXCEPT !.hands[handIndex].isPinching = FALSE]
    ELSE g

\* Variant of _resetHandState that leaves the fist flag.
resetHandStateKeepingFist(g, handIndex) ==
    LET g1 == [g EXCEPT !.hands[handIndex].landmarks = NoObject]
        g2 == IF g1.hands[handIndex].isPinching THEN handlePinchEnd(g1, handIndex) ELSE g1
    IN [g2 EXCEPT !.hands[handIndex].isPinching = FALSE]

resetHandState(g, handIndex) ==
    LET g1 == [g EXCEPT !.hands[handIndex].landmarks = NoObject]
        g2 == IF g1.hands[handIndex].isPinching THEN handlePinchEnd(g1, handIndex) ELSE g1
    IN [g2 EXCEPT !.hands[handIndex].isPinching = FALSE,
                  !.hands[handIndex].isFistClosed = FALSE]

\* The branch of _processHandResults for one hand; landmarks is the hand's
\* smoothed landmark list of this frame, or NoObject when the detector has none.
processHand(g, handIndex, landmarks) ==
    IF landmarks # NoObject
    THEN updateHandInteraction([g EXCEPT !.hands[handIndex].landmarks = landmarks], handIndex)
    ELSE resetHandState(g, handIndex)

----------------------------------------------------------------------------
\* Hover highlighter.

setNodeHoverStyle(g, node, isHovering) ==
    IF g.nodeLabels
    THEN [g EXCEPT !.hoverStyled = IF isHovering THEN @ \cup {node} ELSE @ \ {node}]
    ELSE g

\* A variant of the nested forEach of _updateNodeHover that takes a node at
\* the threshold distance, and a later node at the distance of the best so far.
RECURSIVE hoverFromInclusive(_, _, _, _, _)
hoverFromInclusive(g, h, k, best, bestSq) ==
    IF h > 1 THEN best
    ELSE IF g.hands[h].landmarks = NoObject \/ g.draggedNodeInfo.handIndex = h
              \/ k > Len(NodeOrder)
    THEN hoverFromInclusive(g, h + 1, 1, best, bestSq)
    ELSE LET n == NodeOrder[k]
             node == g.nodes[n]
             indexTipScreen == Project(g.hands[h].landmarks.indexTip)
             distanceSq == distanceToSquared(indexTipScreen, worldToScreen(node.pos))
         IN IF node.pos # NoObject /\ distanceSq <= bestSq
            THEN hoverFromInclusive(g, h, k + 1, n, distanceSq)
            ELSE hoverFromInclusive(g, h, k + 1, best, bestSq)

\* The nested forEach of _updateNodeHover from hand h, node position k on:
\* best is newHoveredNode, bestSq is minDistanceSq.
RECURSIVE hoverFrom(_, _, _, _, _)
hoverFrom(g, h, k, best, bestSq) ==
    IF h > 1 THEN best
    ELSE IF g.hands[h].landmarks = NoObject \/ g.draggedNodeInfo.handIndex = h
              \/ k > Len(NodeOrder)
    THEN hoverFrom(g, h + 1, 1, best, bestSq)
    ELSE LET n == NodeOrder[k]
             node == g.nodes[n]
             indexTipScreen == Project(g.hands[h].landmarks.indexTip)
             distanceSq == distanceToSquared(indexTipScreen, worldToScreen(node.pos))
         IN IF node.pos # NoObject /\ distanceSq < bestSq
            THEN hoverFrom(g, h, k + 1, n, distanceSq)
            ELSE hoverFrom(g, h, k + 1, best, bestSq)

\* A variant of _updateNodeHover that leaves the hover alone outside drag mode.
updateNodeHoverOnlyInDrag(g) ==
    IF g.interactionMode # "drag" \/ ~g.forceGraph
    THEN g
    ELSE LET newHoveredNode == hoverFrom(g, 0, 1, NoNode, HOVER_SCREEN * HOVER_SCREEN)
             g1 == IF g.currentlyHoveredNode # NoNode
                   THEN setNodeHoverStyle(g, g.currentlyHoveredNode, FALSE) ELSE g
             g2 == IF newHoveredNode # NoNode
                   THEN setNodeHoverStyle(g1, newHoveredNode, TRUE) ELSE g1
         IN IF g.currentlyHoveredNode # newHoveredNode
            THEN [g2 EXCEPT !.currentlyHoveredNode = newHoveredNode]
            ELSE g

updateNodeHover(g) ==
    IF g.interactionMode # "drag" \/ ~g.forceGraph
    THEN IF g.currentlyHoveredNode # NoNode
         THEN [setNodeHoverStyle(g, g.currentlyHoveredNode, FALSE)
                   EXCEPT !.currentlyHoveredNode = NoNode]
         ELSE g
    ELSE LET newHoveredNode == hoverFrom(g, 0, 1, NoNode, HOVER_SCREEN * HOVER_SCREEN)
             g1 == IF g.currentlyHoveredNode # NoNode
                   THEN setNodeHoverStyle(g, g.currentlyHoveredNode, FALSE) ELSE g
             g2 == IF newHoveredNode # NoNode
                   THEN setNodeHoverStyle(g1, newHoveredNode, TRUE) ELSE g1
         IN IF g.currentlyHoveredNode # newHoveredNode
            THEN [g2 EXCEPT !.currentlyHoveredNode = newHoveredNode]
            ELSE g

----------------------------------------------------------------------------
\* Mode state machine and voice commands.

\* Variant of the hands.forEach of _handleInteractionModeChange that resets nothing.
keepGesturesFrom(g, newMode, k) == g

\* The hands.forEach of _handleInteractionModeChange, hands k..1.
RECURSIVE resetGesturesFrom(_, _, _)
resetGesturesFrom(g, newMode, k) ==
    IF k > 1 THEN g
    ELSE LET g1 == IF newMode # "rotate"
                   THEN [g EXCEPT !.hands[k].isFistClosed = FALSE] ELSE g
             g2 == IF newMode # "drag"
                   THEN [(IF g1.hands[k].isPinching THEN handlePinchEnd(g1, k) ELSE g1)
                             EXCEPT !.hands[k].isPinching = FALSE]
                   ELSE g1
             g3 == IF newMode # "zoom"
                   THEN [g2 EXCEPT !.initialZoomWristDistance = NoNumber,
                                   !.initialZoomCameraDistance = NoNumber]
                   ELSE g2
         IN resetGesturesFrom(g3, newMode, k + 1)

\* _handleInteractionModeChange after its guard.
enterMode(g, newMode) ==
    LET g1 == [g EXCEPT !.interactionMode = newMode]
        g2 == IF newMode # "drag" /\ g1.draggedNodeInfo.node # NoNode
              THEN handlePinchEnd(g1, g1.draggedNodeInfo.handIndex) ELSE g1
        g3 == IF g2.isAutoRotating THEN toggleAutoRotation(g2, "off") ELSE g2
    IN resetGesturesFrom(g3, newMode, 0)

\* Variant of _handleInteractionModeChange whose guard lets the current mode pass.
handleInteractionModeChangeAgain(g, newMode) ==
    IF newMode \notin Modes THEN g ELSE enterMode(g, newMode)

handleInteractionModeChange(g, newMode) ==
    IF newMode \notin Modes \/ g.interactionMode = newMode THEN g
    ELSE enterMode(g, newMode)

\* Object.entries(commands).forEach over the keys from position k on;
\* keys is the set of mode words the utterance contains.
RECURSIVE modeWordsFrom(_, _, _)
modeWordsFrom(g, keys, k) ==
    IF k > Len(ModeOrder) THEN g
    ELSE modeWordsFrom(IF ModeOrder[k] \in keys
                       THEN handleInteractionModeChange(g, ModeOrder[k]) ELSE g,
                       keys, k + 1)

\* A variant of _handleSpeechCommand that looks for the mode words first and
\* for the auto-rotate phrases only when there is none.
handleSpeechCommandWordsFirst(g, command) ==
    IF command.keys # {} THEN modeWordsFrom(g, command.keys, 1)
    ELSE IF command.auto THEN toggleAutoRotation(g, "toggle")
    ELSE g

\* command.auto: the utterance contains one of the auto-rotate phrases.
handleSpeechCommand(g, command) ==
    IF command.auto THEN toggleAutoRotation(g, "toggle")
    ELSE modeWordsFrom(g, command.keys, 1)

\* Variant of _restartGame that also goes back to the initial mode.
restartGameInDragMode(g) ==
    [g EXCEPT !.gameState = "tracking", !.lastVideoTime = -1, !.interactionMode = "drag"]

restartGame(g) == [g EXCEPT !.gameState = "tracking", !.lastVideoTime = -1]

----------------------------------------------------------------------------
\* The state machine.

NoSeen == [hand0 |-> Null, hand1 |-> Null, hover |-> Null, global |-> Null]
NoResults == [i \in HandIdx |-> FALSE]

\* The signals to the scene are those of the callback that ran last.
Quiet(g) == [g EXCEPT !.reheat = FALSE, !.orbitDelta = NoObject]

\* Fields that are written again before they are next read keep no value in
\* the model: pinchScreenPos (written at l.355 before l.360 and l.365 read it),
\* lastFistScreenPos of an open hand (l.384 precedes l.389), screenOffset and
\* initialNodeWorldPos while no node is held (l.802-806 precede l.875-876).
Settled(g) ==
    [g EXCEPT
       !.hands = [i \in HandIdx |->
                    [g.hands[i] EXCEPT
                       !.pinchScreenPos = Vec2(0, 0),
                       !.lastFistScreenPos =
                           IF g.hands[i].isFistClosed THEN @ ELSE Vec2(0, 0)]],
       !.draggedNodeInfo =
           IF g.draggedNodeInfo.node # NoNode THEN @
           ELSE [@ EXCEPT !.screenOffset = Vec2(0, 0),
                          !.initialNodeWorldPos = Vec3(0, 0, 0)]]

\* Variant in which a callback may run between the stages of a frame.
BetweenStages == TRUE

\* Callbacks of the UI, the recogniser, the physics and the video run between frames.
BetweenFrames == pc = "idle"

\* History of a menu or voice request made of game g for the modes in names:
\* whether it names a valid mode other than the current one and, if so,
\* whether it met auto-rotation and a pinching hand.
Request(g, names) ==
    IF names \cap Modes \subseteq {g.interactionMode}
    THEN [op |-> "request", changed |-> FALSE]
    ELSE [op |-> "request", changed |-> TRUE,
          auto |-> g.isAutoRotating,
          pinch |-> \E i \in HandIdx : g.hands[i].isPinching]

\* What the stages of a frame saw is forgotten by the first callback after it.
Forget == IF pc = "idle" THEN NoSeen ELSE seen

Init ==
    /\ \E graphOk \in BOOLEAN, hasGraph \in BOOLEAN, nodeLabels \in BOOLEAN :
          /\ graphOk => hasGraph
          /\ nodeLabels => hasGraph
          /\ game = [InitGame(graphOk, hasGraph) EXCEPT !.nodeLabels = nodeLabels]
    /\ animating = FALSE
    /\ setupDone = FALSE
    /\ videoTime = 0
    /\ pc = "idle"
    /\ results = NoResults
    /\ seen = NoSeen
    /\ last = [op |-> "init"]

\* _init after its awaits: _setupHandTracking resolved, the video plays,
\* gameState = 'tracking', _startGame, _animate.
SetupSucceeds ==
    /\ BetweenFrames /\ ~setupDone
    /\ game' = [Quiet(game) EXCEPT !.handLandmarker = TRUE, !.gameState = "tracking",
                                   !.lastVideoTime = -1]
    /\ animating' = TRUE
    /\ setupDone' = TRUE
    /\ last' = [op |-> "env"]
    /\ results' = NoResults /\ seen' = Forget
    /\ UNCHANGED <<videoTime, pc>>

\* _setupHandTracking threw: _showError, and _init never reaches _animate.
SetupFails ==
    /\ BetweenFrames /\ ~setupDone
    /\ game' = [Quiet(game) EXCEPT !.gameState = "error"]
    /\ setupDone' = TRUE
    /\ last' = [op |-> "env"]
    /\ results' = NoResults /\ seen' = Forget
    /\ UNCHANGED <<animating, videoTime, pc>>

\* The click handler of renderDiv.
RestartClick ==
    /\ BetweenFrames
    /\ game.gameState \in {"error", "paused"}
    /\ game' = restartGame(Quiet(game))
    /\ last' = [op |-> "restart"]
    /\ results' = NoResults /\ seen' = Forget
    /\ UNCHANGED <<animating, setupDone, videoTime, pc>>

\* The click handler of the mode menu; the data-mode attribute may be anything.
MenuClick ==
    /\ BetweenFrames
    /\ \E newMode \in Modes \cup {"other"} :
          /\ game' = Settled(handleInteractionModeChange(Quiet(game), newMode))
          /\ last' = Request(game, {newMode})
    /\ results' = NoResults /\ seen' = Forget
    /\ UNCHANGED <<animating, setupDone, videoTime, pc>>

\* A final transcript from the recogniser, which _startGame starts.
\* Of the auto-rotate phrases only 'auto rotate' contains a mode word.
Utterances ==
    [auto : {FALSE}, keys : SUBSET Modes] \cup [auto : {TRUE}, keys : {{}, {"rotate"}}]

SpeechCommand ==
    /\ BetweenFrames /\ animating
    /\ \E command \in Utterances :
          /\ game' = Settled(handleSpeechCommand(Quiet(game), command))
          /\ last' = IF command.auto THEN [op |-> "toggle"]
                     ELSE Request(game, command.keys)
    /\ results' = NoResults /\ seen' = Forget
    /\ UNCHANGED <<animating, setupDone, videoTime, pc>>

\* The graph data arrive and the force simulation gives every node a position.
GraphLoads ==
    /\ BetweenFrames /\ game.forceGraph
    /\ \A n \in NodeIds : game.nodes[n].pos = NoObject
    /\ game' = [Quiet(game) EXCEPT
                   !.nodes = [n \in NodeIds |-> [pos |-> NodeHome[n], fixed |-> NoObject]]]
    /\ last' = [op |-> "env"]
    /\ results' = NoResults /\ seen' = Forget
    /\ UNCHANGED <<animating, setupDone, videoTime, pc>>

\* The force simulation moves a node that is not fixed back to where the
\* forces balance.
SimulationStep ==
    /\ BetweenFrames /\ game.forceGraph
    /\ \E n \in NodeIds :
          /\ game.nodes[n].pos # NoObject
          /\ game.nodes[n].fixed = NoObject
          /\ game.nodes[n].pos # NodeHome[n]
          /\ game' = [Quiet(game) EXCEPT !.nodes[n].pos = NodeHome[n]]
    /\ last' = [op |-> "env"]
    /\ results' = NoResults /\ seen' = Forget
    /\ UNCHANGED <<animating, setupDone, videoTime, pc>>

\* The video element shows a later frame, once _animate has sampled the one
\* before (the animation loop runs at least once per video frame).
VideoAdvance ==
    /\ BetweenFrames /\ animating
    /\ videoTime <= game.lastVideoTime
    /\ videoTime < MaxVideoTime
    /\ videoTime' = videoTime + 1
    /\ game' = Quiet(game)
    /\ last' = [op |-> "env"]
    /\ results' = NoResults /\ seen' = Forget
    /\ UNCHANGED <<animating, setupDone, pc>>

\* A variant of the timestamp guard that lets the frame of the last processed
\* time through again.
frameProcessedBefore(g, time) == time < g.lastVideoTime

\* The timestamp guard of _updateHands: videoTime <= this.lastVideoTime.
frameAlreadyProcessed(g, time) == time <= g.lastVideoTime

\* A variant in which ticks run whenever the status is 'tracking', whether or
\* not _init got as far as _animate and the tracker is ready.
FrameRunsWhenTracking ==
    /\ pc = "idle"
    /\ game.gameState = "tracking"

\* _animate calls _updateHands only while tracking; _isHandTrackingReady.
FrameRuns ==
    /\ pc = "idle" /\ animating
    /\ game.gameState = "tracking"
    /\ game.handLandmarker

\* _updateHands, the timestamp guard: the frame was processed already.
FrameSkipped ==
    /\ FrameRuns
    /\ frameAlreadyProcessed(game, videoTime)
    /\ UNCHANGED vars

\* A variant of the tick without projection parameters that treats both hands
\* as lost.
updateHandsLosingHands(g, time) ==
    [resetHandState(resetHandState(g, 0), 1) EXCEPT !.lastVideoTime = time]

\* _updateHands when _getVisibleVideoParameters gives null: the time is
\* stored, the detector runs, and the method returns.
updateHandsWithoutParams(g, time) == [g EXCEPT !.lastVideoTime = time]

\* _updateHands with no projection parameters: the surface has no extent.
FrameWithoutParams ==
    /\ FrameRuns
    /\ ~frameAlreadyProcessed(game, videoTime)
    /\ getVisibleVideoParameters(Video.width, Video.height, 0, 0) = NoObject
    /\ game' = updateHandsWithoutParams(Quiet(game), videoTime)
    /\ results' \in [HandIdx -> BOOLEAN]
    /\ seen' = NoSeen
    /\ last' = [op |-> "noParams"]
    /\ UNCHANGED <<animating, setupDone, videoTime, pc>>

\* _updateHands up to the call of _processHandResults.  What the detector
\* found for hand i is drawn where the frame first reads it (ProcessHand).
FrameBegins ==
    /\ FrameRuns
    /\ ~frameAlreadyProcessed(game, videoTime)
    /\ VideoParams # NoObject
    /\ game' = [Quiet(game) EXCEPT !.lastVideoTime = videoTime]
    /\ results' = NoResults
    /\ seen' = NoSeen
    /\ pc' = "hand0"
    /\ last' = [op |-> "frame"]
    /\ UNCHANGED <<animating, setupDone, videoTime>>

\* _processHandResults, hand handIndex.
ProcessHand(handIndex, stage, next) ==
    /\ pc = stage
    /\ \E landmarks \in HandPoses \cup {NoObject} :
          /\ game' = Settled(processHand(game, handIndex, landmarks))
          /\ results' = [results EXCEPT ![handIndex] = landmarks # NoObject]
          /\ seen' = IF landmarks # NoObject
                     THEN [seen EXCEPT ![stage] = game.interactionMode] ELSE seen
    /\ pc' = next
    /\ last' = [op |-> stage,
                rise |-> ~game.hands[handIndex].isPinching
                           /\ game'.hands[handIndex].isPinching]
    /\ UNCHANGED <<animating, setupDone, videoTime>>

ProcessHand0 == ProcessHand(0, "hand0", "hand1")

\* A variant in which the second hand is followed by the global logic at once.
ProcessHand1ThenGlobal == ProcessHand(1, "hand1", "global")

ProcessHand1 == ProcessHand(1, "hand1", "hover")

\* _updateNodeHover.
NodeHover ==
    /\ pc = "hover"
    /\ game' = updateNodeHover(game)
    /\ seen' = [seen EXCEPT !.hover = game.interactionMode]
    /\ pc' = "global"
    /\ last' = [op |-> "hover",
                cleared |-> game.currentlyHoveredNode # NoNode
                              /\ game'.currentlyHoveredNode = NoNode]
    /\ UNCHANGED <<animating, setupDone, videoTime, results>>

\* _handleGlobalInteractionLogic, which ends the frame.
GlobalLogic ==
    /\ pc = "global"
    /\ game' = Settled(handleGlobalInteractionLogic(game, results))
    /\ seen' = [seen EXCEPT !.global = game.interactionMode]
    /\ pc' = "idle"
    /\ last' = [op |-> "global",
                baseline |-> game.initialZoomWristDistance # NoNumber]
    /\ UNCHANGED <<animating, setupDone, videoTime, results>>

Next ==
    \/ SetupSucceeds
    \/ SetupFails
    \/ RestartClick
    \/ MenuClick
    \/ SpeechCommand
    \/ GraphLoads
    \/ SimulationStep
    \/ VideoAdvance
    \/ FrameSkipped
    \/ FrameWithoutParams
    \/ FrameBegins
    \/ ProcessHand0
    \/ ProcessHand1
    \/ NodeHover
    \/ GlobalLogic

Spec == Init /\ [][Next]_vars

----------------------------------------------------------------------------
\* Properties.

\* The nodes whose position is fixed (fx, fy, fz are set).
Pinned == {n \in NodeIds : game.nodes[n].fixed # NoObject}

\* A frame has run through all its stages and nothing has happened since.
AfterFrame == pc = "idle" /\ last.op = "global"

\* C1: a mode-change request that changes the mode while a node is dragged
\* releases the node: the node is no longer pinned, draggedNodeInfo has no
\* owner hand and no node, and after drag -> rotate no hand's pinch flag is set.
C1_ModeChangeReleasesDrag ==
    [][(last'.op = "request" /\ last'.changed /\ game.draggedNodeInfo.node # NoNode)
          => /\ game'.nodes[game.draggedNodeInfo.node].fixed = NoObject
             /\ game'.draggedNodeInfo.node = NoNode
             /\ game'.draggedNodeInfo.handIndex = -1
             /\ (game.interactionMode = "drag" /\ game'.interactionMode = "rotate"
                   => \A i \in HandIdx : ~game'.hands[i].isPinching)]_vars

\* C2: at most one hand owns a drag and at most one node is dragged and pinned;
\* a pinch rising edge on one hand while the other hand holds a node leaves
\* draggedNodeInfo (owner, node, offset, initial position) and the pinned
\* nodes as they were.
C2_DragExclusive ==
    /\ [](/\ Cardinality(Pinned) <= 1
          /\ Pinned \subseteq {game.draggedNodeInfo.node}
          /\ game.draggedNodeInfo.node # NoNode <=> game.draggedNodeInfo.handIndex \in HandIdx)
    /\ [][\A i \in HandIdx :
             (/\ ~game.hands[i].isPinching /\ game'.hands[i].isPinching
              /\ game.draggedNodeInfo.node # NoNode
              /\ game.draggedNodeInfo.handIndex # i)
             => /\ game'.draggedNodeInfo = game.draggedNodeInfo
                /\ \A n \in NodeIds : game'.nodes[n].fixed = game.nodes[n].fixed]_vars

\* C2 happens: hand 1 starts a pinch while hand 0 holds the one pinned node.
C2_SecondPinchMet ==
    /\ last.op = "hand1" /\ last.rise
    /\ game.draggedNodeInfo.handIndex = 0
    /\ Pinned = {game.draggedNodeInfo.node}

\* C3: after a processed frame in which the detector has no hand at slot i,
\* hand i has no landmarks, its pinch flag and fist flag are false, and no
\* node is held by hand i, whatever the mode.
C3_LostHandIsReset ==
    AfterFrame =>
        \A i \in HandIdx :
            ~results[i] => /\ game.hands[i].landmarks = NoObject
                           /\ ~game.hands[i].isPinching
                           /\ ~game.hands[i].isFistClosed
                           /\ game.draggedNodeInfo.handIndex # i

\* C4: between callbacks, whenever draggedNodeInfo holds a node the mode is
\* drag, the owning hand is tracked and the owning hand's pinch flag is set.
C4_DragOnlyWhilePinching ==
    (pc = "idle" /\ game.draggedNodeInfo.node # NoNode)
        => /\ game.interactionMode = "drag"
           /\ game.draggedNodeInfo.handIndex \in HandIdx
           /\ game.hands[game.draggedNodeInfo.handIndex].landmarks # NoObject
           /\ game.hands[game.draggedNodeInfo.handIndex].isPinching

\* C5: a pinch flag is set only in drag mode and a fist flag only in rotate
\* mode; a mode change to T leaves no fist flag set unless T is rotate and no
\* pinch flag set unless T is drag; after a processed frame in zoom mode no
\* flag of either hand is set.
C5_FlagsFollowMode ==
    /\ [](\A i \in HandIdx :
             /\ game.hands[i].isPinching => game.interactionMode = "drag"
             /\ game.hands[i].isFistClosed => game.interactionMode = "rotate")
    /\ [][game'.interactionMode # game.interactionMode
            => \A i \in HandIdx :
                 /\ game'.interactionMode # "rotate" => ~game'.hands[i].isFistClosed
                 /\ game'.interactionMode # "drag" => ~game'.hands[i].isPinching]_vars
    /\ []((AfterFrame /\ game.interactionMode = "zoom")
            => \A i \in HandIdx : ~game.hands[i].isPinching /\ ~game.hands[i].isFistClosed)

\* C5 happens: a request changed the mode while a hand was pinching.
C5_PinchMetModeChange ==
    /\ last.op = "request" /\ last.changed /\ last.pinch
    /\ \A i \in HandIdx : ~game.hands[i].isPinching

\* A zoom baseline exists.
ZoomBaseline == game.initialZoomWristDistance # NoNumber

\* The detector had no hand at some slot on the last frame.
HandMissing == \E i \in HandIdx : ~results[i]

\* What holds of the baseline between callbacks and across a mode change.
BaselineOnlyInZoom ==
    /\ []((pc = "idle" /\ ZoomBaseline)
            => /\ game.interactionMode = "zoom"
               /\ \A i \in HandIdx : game.hands[i].landmarks # NoObject)
    /\ [][(game.interactionMode = "zoom" /\ game'.interactionMode # "zoom")
            => game'.initialZoomWristDistance = NoNumber]_vars

\* C6, as stated: the baseline exists only in zoom mode with both hands
\* tracked, every frame on which a hand is missing clears it, whether or not
\* the frame got past the projection parameters, and so does every mode
\* change away from zoom.
C6_BaselineClearedByAnyTick ==
    /\ BaselineOnlyInZoom
    /\ []((pc = "idle" /\ last.op \in {"global", "noParams"} /\ HandMissing)
            => ~ZoomBaseline)

\* C6, amended: the baseline exists only in zoom mode with both hands tracked,
\* every processed frame on which a hand is missing clears it, and so does
\* every mode change away from zoom.
C6_BaselineClearedByProcessedTick ==
    /\ BaselineOnlyInZoom
    /\ []((AfterFrame /\ HandMissing) => ~ZoomBaseline)

\* C6 happens: a processed frame in zoom mode met a baseline and a missing hand.
C6_BaselineMetMissingHand ==
    /\ AfterFrame /\ last.baseline /\ HandMissing
    /\ game.interactionMode = "zoom"
    /\ ~ZoomBaseline

\* C7: after a mode-change request that changes the mode, auto-rotation is
\* inactive, whatever the source and target modes.
C7_ModeChangeStopsAutoRotation ==
    [][((last'.op = "request" /\ last'.changed)
          \/ game'.interactionMode # game.interactionMode)
         => ~game'.isAutoRotating]_vars

\* C7 happens: a request changed the mode while auto-rotation was active.
C7_AutoRotationMetModeChange ==
    /\ last.op = "request" /\ last.changed /\ last.auto
    /\ ~game.isAutoRotating

\* C8: a request that names the current mode, or no valid mode, changes
\* neither the mode, nor auto-rotation, nor a pinch or fist flag, nor the zoom
\* baseline, nor draggedNodeInfo, nor which nodes are pinned.
C8_SameModeRequestIsNoOp ==
    [][(last'.op = "request" /\ ~last'.changed)
         => /\ game'.interactionMode = game.interactionMode
            /\ game'.isAutoRotating = game.isAutoRotating
            /\ \A i \in HandIdx :
                  /\ game'.hands[i].isPinching = game.hands[i].isPinching
                  /\ game'.hands[i].isFistClosed = game.hands[i].isFistClosed
            /\ game'.initialZoomWristDistance = game.initialZoomWristDistance
            /\ game'.initialZoomCameraDistance = game.initialZoomCameraDistance
            /\ game'.draggedNodeInfo = game.draggedNodeInfo
            /\ \A n \in NodeIds : game'.nodes[n].fixed = game.nodes[n].fixed]_vars

\* C8 happens: such a request arrived while auto-rotation was active and a
\* pinching hand held a pinned node.
C8_NoOpRequestMetActivity ==
    /\ last.op = "request" /\ ~last.changed
    /\ game.isAutoRotating
    /\ Pinned # {}
    /\ \E i \in HandIdx : game.hands[i].isPinching

\* C9: the mode is always drag, rotate or zoom, it is drag initially, and it
\* changes only by a request that names a different valid mode: no frame,
\* gesture, hand loss, restart or auto-rotate toggle changes it.
C9_ModeChangesOnlyByRequest ==
    /\ game.interactionMode = "drag"
    /\ [](game.interactionMode \in Modes)
    /\ [][game'.interactionMode # game.interactionMode
            => last'.op = "request" /\ last'.changed]_vars

\* C9 happens: a restart left a mode other than the initial one in place.
C9_RestartKeptMode == last.op = "restart" /\ game.interactionMode # "drag"

\* C10: no mode-change or auto-rotate request takes effect inside a frame:
\* the stage of hand 0, the stage of hand 1, the hover highlighter and the
\* global zoom step of one frame all see the same mode.
C10_OneModePerFrame ==
    /\ [](\A a, b \in DOMAIN seen : seen[a] # Null /\ seen[b] # Null => seen[a] = seen[b])
    /\ [][pc # "idle"
            => /\ game'.interactionMode = game.interactionMode
               /\ last'.op \notin {"request", "toggle"}]_vars

\* C10 happens: a frame with both hands ran all four stages.
C10_AllStagesRan ==
    /\ AfterFrame
    /\ \A a \in DOMAIN seen : seen[a] # Null

\* C11: in drag mode, on the frame where the pinch flag of the hand that owns
\* the drag falls, the dragged node is unpinned, draggedNodeInfo is cleared
\* (no owner, no node) and a re-heat of the simulation is requested.
C11_PinchEndReleases ==
    [][\A i \in HandIdx :
         (/\ game.interactionMode = "drag" /\ game'.interactionMode = "drag"
          /\ game.draggedNodeInfo.node # NoNode
          /\ game.draggedNodeInfo.handIndex = i
          /\ game.hands[i].isPinching /\ ~game'.hands[i].isPinching)
         => /\ game'.nodes[game.draggedNodeInfo.node].fixed = NoObject
            /\ game'.draggedNodeInfo.node = NoNode
            /\ game'.draggedNodeInfo.handIndex = -1
            /\ game'.reheat]_vars

\* C11 happens: the stage of hand 0 saw the hand, ended its pinch and released
\* the node it held (only a release or a move re-heats, and a move keeps the
\* pinch flag set).
C11_PinchReleased ==
    /\ last.op = "hand0" /\ results[0]
    /\ ~game.hands[0].isPinching
    /\ game.reheat
    /\ game.draggedNodeInfo.node = NoNode
    /\ Pinned = {}

----------------------------------------------------------------------------
\* Node picking on its own: the graph in any layout, one pinch arriving.

\* Where a node may lie (NoObject: the node has no position yet) and where
\* the pinch may land; distances of 79, 80 and 30 px occur, and ties.
PickPositions ==
    {NoObject, Vec3(79, 0, 0), Vec3(80, 0, 0), Vec3(-79, 0, 0), Vec3(48, 64, 0),
     Vec3(48, 63, 0), Vec3(30, 0, 0), Vec3(0, -30, 5), Vec3(190, 0, 0)}

PickPoints == {Vec2(0, 0), Vec2(110, 0)}

\* The engine tracking in drag mode, no hand seen yet, the nodes laid out.
PickInit ==
    /\ \E layout \in [NodeIds -> PickPositions] :
          game = [InitGame(TRUE, TRUE) EXCEPT
                     !.handLandmarker = TRUE, !.gameState = "tracking",
                     !.nodes = [n \in NodeIds |-> [pos |-> layout[n], fixed |-> NoObject]]]
    /\ animating = TRUE
    /\ setupDone = TRUE
    /\ videoTime = 0
    /\ pc = "idle"
    /\ results = NoResults
    /\ seen = NoSeen
    /\ last = [op |-> "init"]

\* The stage of hand 0 on a frame that shows it pinching at point a.
PickStep ==
    /\ last.op = "init"
    /\ \E a \in PickPoints :
          /\ game' = Settled(processHand(game, 0, Pose(a, "pinch")))
          /\ last' = [op |-> "pick", at |-> a]
    /\ results' = [results EXCEPT ![0] = TRUE]
    /\ UNCHANGED <<animating, setupDone, videoTime, pc, seen>>

SpecPick == PickInit /\ [][PickStep]_vars

\* Squared screen distance from point p to node n, which has a position.
PickDistanceSq(p, n) == distanceToSquared(p, worldToScreen(game.nodes[n].pos))

\* The positioned nodes strictly less than 80 px from point p.
PickCandidates(p) ==
    {n \in NodeIds : game.nodes[n].pos # NoObject /\ PickDistanceSq(p, n) < 80 * 80}

\* C12: a pinch rising edge in drag mode with no drag active picks the
\* positioned node nearest to the pinch point among those strictly under
\* 80 px, the first in node order on ties; with no such node nothing is held
\* and nothing is pinned; a node without a position is never picked.
C12_NearestNodePicked ==
    last.op = "pick" =>
        IF PickCandidates(last.at) = {}
        THEN game.draggedNodeInfo.node = NoNode /\ Pinned = {}
        ELSE \E n \in PickCandidates(last.at) :
               /\ game.draggedNodeInfo.node = n
               /\ game.draggedNodeInfo.handIndex = 0
               /\ Pinned = {n}
               /\ \A m \in PickCandidates(last.at) :
                     /\ PickDistanceSq(last.at, n) <= PickDistanceSq(last.at, m)
                     /\ PickDistanceSq(last.at, n) = PickDistanceSq(last.at, m) => n <= m

\* C12 happens: two nodes in different places at the same distance under
\* 80 px, and the first in node order is the one picked.
C12_TieBrokenByOrder ==
    /\ last.op = "pick"
    /\ PickCandidates(last.at) = NodeIds
    /\ PickDistanceSq(last.at, 1) = PickDistanceSq(last.at, 2)
    /\ game.nodes[1].pos # game.nodes[2].pos
    /\ game.draggedNodeInfo.node = 1

\* The pinch point of a tracked hand: midway between the projected thumb tip
\* and index tip.
PinchPoint(hand) ==
    LET thumbTipScreen == Project(hand.landmarks.thumbTip)
        indexTipScreen == Project(hand.landmarks.indexTip)
    IN Vec2((thumbTipScreen.x + indexTipScreen.x) \div 2,
            (thumbTipScreen.y + indexTipScreen.y) \div 2)

\* The stage of _processHandResults that handles hand i.
StageOf(i) == IF i = 0 THEN "hand0" ELSE "hand1"

----------------------------------------------------------------------------
\* The pinch flag on its own: one hand in drag mode, its thumb tip and index
\* tip at any distance on every frame.

\* Components (px) of the screen vector from the thumb tip to the index tip:
\* lengths of 49, 50 and 51 px occur, along the axes and across them.
PinchGapsX == {0, 30, 31, 35, 48, 49, 50, 51}
PinchGapsY == {0, 1, 35, 36, 39, 40, 50}

\* A hand whose index tip lies at screen vector v from its thumb tip.
GapPose(v) ==
    [Pose(Vec2(0, 0), "open") EXCEPT !.thumbTip = At(-20, 0, 0),
                                     !.indexTip = At(v.x - 20, v.y, 0)]

PinchInit ==
    /\ game = [InitGame(TRUE, TRUE) EXCEPT !.handLandmarker = TRUE,
                                           !.gameState = "tracking"]
    /\ animating = TRUE
    /\ setupDone = TRUE
    /\ videoTime = 0
    /\ pc = "idle"
    /\ results = NoResults
    /\ seen = NoSeen
    /\ last = [op |-> "init"]

\* The stage of hand 0 on a frame that shows it with gap vector v.
PinchTick ==
    /\ \E x \in PinchGapsX, y \in PinchGapsY :
          /\ game' = Settled(processHand(game, 0, GapPose(Vec2(x, y))))
          /\ last' = [op |-> "pinchTick", gap |-> Vec2(x, y),
                      prev |-> game.hands[0].isPinching]
    /\ results' = [results EXCEPT ![0] = TRUE]
    /\ UNCHANGED <<animating, setupDone, videoTime, pc, seen>>

SpecPinch == PinchInit /\ [][PinchTick]_vars

\* C14: after a processed drag-mode frame for a tracked hand the pinch flag
\* says whether the screen distance from thumb tip to index tip is under
\* 50 px, whatever the flag was before: 49 px gives true, 51 px false and
\* exactly 50 px false.
C14_PinchIsThreshold ==
    last.op = "pinchTick" =>
        /\ game.hands[0].isPinching
              <=> last.gap.x * last.gap.x + last.gap.y * last.gap.y < 50 * 50
        /\ last.gap = Vec2(49, 0) => game.hands[0].isPinching
        /\ last.gap = Vec2(51, 0) => ~game.hands[0].isPinching
        /\ last.gap \in {Vec2(50, 0), Vec2(0, 50), Vec2(30, 40)} => ~game.hands[0].isPinching

\* C14 happens: a pinching hand opened to exactly 50 px and its flag fell.
C14_FlagFellAtBoundary ==
    /\ last.op = "pinchTick" /\ last.prev
    /\ last.gap = Vec2(30, 40)
    /\ ~game.hands[0].isPinching

----------------------------------------------------------------------------
\* The fist classifier on its own: one hand in rotate mode, its fingertips
\* anywhere around the threshold on every frame.

\* Offsets from the wrist, in landmark units: the middle MCP at distance 0 or
\* 40; a fingertip at 29, at exactly 30 = 0.75 * 40 (along an axis and in
\* depth) or just under it in depth.
FistRefs == {Vec3(0, 0, 0), Vec3(0, 40, 0)}
FistTips == {Vec3(29, 0, 0), Vec3(30, 0, 0), Vec3(0, 18, 24), Vec3(0, 17, 24)}

\* The landmark at offset d from landmark w.
Off(w, d) == Vec3(w.x + d.x, w.y + d.y, w.z + d.z)

\* A hand with the middle MCP at offset ref and the four fingertips at tips.
FistPose(ref, tips) ==
    LET wrist == At(0, 0, 0)
    IN [wrist     |-> wrist,
        middleMcp |-> Off(wrist, ref),
        thumbTip  |-> Off(wrist, Vec3(60, 0, 0)),
        indexTip  |-> Off(wrist, tips[1]),
        middleTip |-> Off(wrist, tips[2]),
        ringTip   |-> Off(wrist, tips[3]),
        pinkyTip  |-> Off(wrist, tips[4])]

FistInit ==
    /\ game = [InitGame(TRUE, TRUE) EXCEPT !.handLandmarker = TRUE,
                                           !.gameState = "tracking",
                                           !.interactionMode = "rotate"]
    /\ animating = TRUE
    /\ setupDone = TRUE
    /\ videoTime = 0
    /\ pc = "idle"
    /\ results = NoResults
    /\ seen = NoSeen
    /\ last = [op |-> "init"]

\* The stage of hand 0 on a frame that shows it in some such pose.
FistTick ==
    /\ \E ref \in FistRefs, tips \in [1..4 -> FistTips] :
          game' = Settled(processHand(Quiet(game), 0, FistPose(ref, tips)))
    /\ last' = [op |-> "fistTick"]
    /\ results' = [results EXCEPT ![0] = TRUE]
    /\ UNCHANGED <<animating, setupDone, videoTime, pc, seen>>

SpecFist == FistInit /\ [][FistTick]_vars

\* Squared distance from the wrist of hand 0 to its landmark lm.
FromWristSq(lm) == get3DDistanceSq(lm, game.hands[0].landmarks.wrist)

\* How many of the four fingertips of hand 0 are curled: squared distance to
\* the wrist strictly under 0.75^2 = 9/16 of the squared reference distance.
CurledFingers ==
    LET lms == game.hands[0].landmarks
        tips == <<lms.indexTip, lms.middleTip, lms.ringTip, lms.pinkyTip>>
    IN Cardinality({k \in 1..4 :
                      16 * FromWristSq(tips[k]) < 9 * FromWristSq(lms.middleMcp)})

\* C15: the hand is classified a fist exactly when the squared wrist to
\* middle-MCP distance is not zero and at least 3 of the 4 fingertips are
\* curled: 3 curled gives true, 2 curled false, a zero reference false.
C15_FistIsThreeCurled ==
    last.op = "fistTick" =>
        LET ref == FromWristSq(game.hands[0].landmarks.middleMcp)
            fist == game.hands[0].isFistClosed
        IN /\ fist <=> (ref # 0 /\ CurledFingers >= 3)
           /\ (ref # 0 /\ CurledFingers = 3) => fist
           /\ CurledFingers = 2 => ~fist
           /\ ref = 0 => ~fist

\* C15 happens: exactly three fingertips are curled, the fourth lies at
\* exactly 0.75 of the reference distance, and the hand is a fist.
C15_ThreeCurledOneOnBoundary ==
    /\ last.op = "fistTick"
    /\ CurledFingers = 3
    /\ 16 * FromWristSq(game.hands[0].landmarks.pinkyTip)
          = 9 * FromWristSq(game.hands[0].landmarks.middleMcp)
    /\ game.hands[0].isFistClosed

----------------------------------------------------------------------------
\* The zoom controller on its own: zoom mode, hand 0 in place, hand 1 at any
\* wrist distance from it on every frame, or missing.

\* Wrist-to-wrist distances, in landmark units.
ZoomGaps == {0, 100, 150, 200, 300}

\* Hand 0, and hand 1 with its wrist d units from the wrist of hand 0.
ZoomPose(d) == Pose(Vec2(d - 160, 0), "open")

ZoomInit ==
    /\ game = [InitGame(TRUE, TRUE) EXCEPT !.handLandmarker = TRUE,
                                           !.gameState = "tracking",
                                           !.interactionMode = "zoom"]
    /\ animating = TRUE
    /\ setupDone = TRUE
    /\ videoTime = 0
    /\ pc = "idle"
    /\ results = NoResults
    /\ seen = NoSeen
    /\ last = [op |-> "init", steady |-> FALSE]

\* The hand stages and the global stage of one frame, given what the detector
\* has for hand 1 (hand 0 is always there).
ZoomFrame(g, landmarks1) ==
    LET res == [i \in HandIdx |-> i = 0 \/ landmarks1 # NoObject]
        g1 == processHand(processHand(Quiet(g), 0, ZoomPose(0)), 1, landmarks1)
    IN Settled(handleGlobalInteractionLogic(g1, res))

\* A frame with both hands.  steady: the baseline was captured on this frame,
\* or the frames since its capture all showed the baseline wrist distance.
ZoomTick ==
    /\ \E d \in ZoomGaps :
          /\ game' = ZoomFrame(game, ZoomPose(d))
          /\ last' = [op |-> "zoomTick",
                      steady |-> IF Falsy(game.initialZoomWristDistance)
                                      \/ Falsy(game.initialZoomCameraDistance)
                                 THEN TRUE
                                 ELSE last.steady /\ d = game.initialZoomWristDistance]
    /\ results' = [i \in HandIdx |-> TRUE]
    /\ UNCHANGED <<animating, setupDone, videoTime, pc, seen>>

\* A frame on which hand 1 is missing.
ZoomLoss ==
    /\ game' = ZoomFrame(game, NoObject)
    /\ last' = [op |-> "zoomLoss", steady |-> FALSE]
    /\ results' = [i \in HandIdx |-> i = 0]
    /\ UNCHANGED <<animating, setupDone, videoTime, pc, seen>>

ZoomNext == ZoomTick \/ ZoomLoss

SpecZoom == ZoomInit /\ [][ZoomNext]_vars

\* C16: in zoom mode with both hands tracked, as long as every frame since the
\* capture of the baseline shows the baseline wrist distance, the camera
\* distance is the one it was when the baseline was captured and no frame
\* changes it.
C16_ZoomIdempotent ==
    /\ [](last.steady => /\ ZoomBaseline
                         /\ game.cameraDistance = game.initialZoomCameraDistance)
    /\ [][(last.steady /\ last'.steady /\ last'.op = "zoomTick")
            => game'.cameraDistance = game.cameraDistance]_vars

\* C16 happens: a baseline captured with the camera away from its starting
\* distance, then a further frame at the baseline wrist distance.
C16_SteadyAfterCapture ==
    /\ last.op = "zoomTick" /\ last.steady
    /\ game.initialZoomWristDistance > 0
    /\ \A i \in HandIdx : game.hands[i].landmarks # NoObject
    /\ Sqrt(get3DDistanceSq(game.hands[0].landmarks.wrist, game.hands[1].landmarks.wrist))
          = game.initialZoomWristDistance
    /\ game.cameraDistance = MAX_CAMERA_DISTANCE_GRAPH

----------------------------------------------------------------------------
\* The landmark smoother on its own.  The specifications above draw the
\* smoothed landmarks of a frame directly; here the detector's raw landmarks
\* are drawn and _updateHandLandmarks smooths them, so the Game object also
\* carries lastLandmarkPositions.

\* Frames run 0..MaxSmoothTicks - 1.
MaxSmoothTicks == 4

\* smoothingFactor = 0.4 = SMOOTH_NUM / SMOOTH_DEN
SMOOTH_NUM == 2
SMOOTH_DEN == 5

RECURSIVE Power(_, _)
Power(b, e) == IF e = 0 THEN 1 ELSE b * Power(b, e - 1)

\* The raw value 1.0, in units fine enough that MaxSmoothTicks smoothing
\* steps are exact.
SmoothUnit == Power(SMOOTH_DEN, MaxSmoothTicks)

Axes == {"x", "y", "z"}

\* Variant of the smoothing step with the two weights exchanged.
smoothSwapped(lm, prevLm) ==
    [a \in Axes |-> ((SMOOTH_DEN - SMOOTH_NUM) * lm[a] + SMOOTH_NUM * prevLm[a])
                        \div SMOOTH_DEN]

\* smoothingFactor * lm + (1 - smoothingFactor) * prevLm, per axis.
smooth(lm, prevLm) ==
    [a \in Axes |-> (SMOOTH_NUM * lm[a] + (SMOOTH_DEN - SMOOTH_NUM) * prevLm[a])
                        \div SMOOTH_DEN]

\* _updateHandLandmarks: an empty lastLandmarkPositions[handIndex] (NoObject)
\* differs in length from the raw list and is seeded with it.
updateHandLandmarks(g, handIndex, rawLandmarks) ==
    LET seeded == IF g.lastLandmarkPositions[handIndex] = NoObject
                  THEN rawLandmarks ELSE g.lastLandmarkPositions[handIndex]
        smoothed == [f \in DOMAIN rawLandmarks |-> smooth(rawLandmarks[f], seeded[f])]
    IN [g EXCEPT !.lastLandmarkPositions[handIndex] = smoothed,
                 !.hands[handIndex].landmarks = smoothed]

\* The branch of _processHandResults for one hand, from the raw landmarks.
processRawHand(g, handIndex, rawLandmarks) ==
    IF rawLandmarks # NoObject
    THEN updateHandInteraction(updateHandLandmarks(g, handIndex, rawLandmarks), handIndex)
    ELSE resetHandState(g, handIndex)

\* Raw hands: every landmark at (c, 2c, -c).
RawValues == {0, SmoothUnit, 3 * SmoothUnit}
RawPose(c) == [f \in DOMAIN Pose(Vec2(0, 0), "open") |-> Vec3(c, 2 * c, 0 - c)]

\* Zoom mode, where the hand stage does nothing but smooth.
SmoothInit ==
    /\ game = [InitGame(TRUE, TRUE) EXCEPT !.handLandmarker = TRUE,
                                           !.gameState = "tracking",
                                           !.interactionMode = "zoom"]
                 @@ [lastLandmarkPositions |-> [i \in HandIdx |-> NoObject]]
    /\ animating = TRUE
    /\ setupDone = TRUE
    /\ videoTime = 0
    /\ pc = "idle"
    /\ results = NoResults
    /\ seen = NoSeen
    /\ last = [op |-> "init"]

\* The stage of hand 0 on a frame that shows it; wasAbsent: the frame before
\* did not (or there was none).
SmoothTick ==
    /\ videoTime < MaxSmoothTicks
    /\ \E c \in RawValues :
          /\ game' = processRawHand(game, 0, RawPose(c))
          /\ last' = [op |-> "smoothTick", raw |-> RawPose(c),
                      wasAbsent |-> game.hands[0].landmarks = NoObject]
    /\ videoTime' = videoTime + 1
    /\ results' = [results EXCEPT ![0] = TRUE]
    /\ UNCHANGED <<animating, setupDone, pc, seen>>

\* The stage of hand 0 on a frame that does not show it.
SmoothLoss ==
    /\ videoTime < MaxSmoothTicks
    /\ game' = processRawHand(game, 0, NoObject)
    /\ last' = [op |-> "smoothLoss"]
    /\ videoTime' = videoTime + 1
    /\ results' = [results EXCEPT ![0] = FALSE]
    /\ UNCHANGED <<animating, setupDone, pc, seen>>

SmoothNext == SmoothTick \/ SmoothLoss

SpecSmooth == SmoothInit /\ [][SmoothNext]_vars

\* C17: whenever a hand appears after being absent on the frame before, at
\* its first appearance or after a loss, the smoothed landmarks of that frame
\* are the raw landmarks.
C17_ReappearanceIsSeeded ==
    (last.op = "smoothTick" /\ last.wasAbsent)
        => game.hands[0].landmarks = last.raw

\* Value w lies between u and v, ends included.
Between(w, u, v) == (u <= w /\ w <= v) \/ (v <= w /\ w <= u)

\* C18: for a hand tracked on the frame before, every smoothed coordinate of
\* this frame is 0.4 * raw + 0.6 * previous, on each axis by itself: it lies
\* between the previous value and the raw one, strictly nearer to the raw one
\* unless it was there already, so under a constant raw value it moves towards
\* it frame after frame and never passes it; previous 0 and raw 1 give 0.4.
C18_SmoothingApproaches ==
    [][(last'.op = "smoothTick" /\ ~last'.wasAbsent)
         => \A f \in DOMAIN last'.raw : \A a \in Axes :
               LET raw == last'.raw[f][a]
                   previous == game.hands[0].landmarks[f][a]
                   smoothed == game'.hands[0].landmarks[f][a]
               IN /\ 5 * smoothed = 2 * raw + 3 * previous
                  /\ Between(smoothed, previous, raw)
                  /\ previous # raw => Abs(raw - smoothed) < Abs(raw - previous)
                  /\ (previous = 0 /\ raw = SmoothUnit) => 5 * smoothed = 2 * SmoothUnit]_vars

\* C18 happens: a tracked hand at 0 met the raw value 1 and went to 0.4, and
\* on the next frame, the raw value still 1, it went from 0.4 to 0.64.
C18_TwoStepsTowardsOne ==
    /\ last.op = "smoothTick" /\ ~last.wasAbsent
    /\ last.raw.wrist.x = SmoothUnit
    /\ 25 * game.hands[0].landmarks.wrist.x = 16 * SmoothUnit

\* ---------------------------------------------------------------------------
\* The remapper by itself: _getVisibleVideoParameters and
\* _projectLandmarkToScreen over frame and surface sizes.  The sizes are those
\* whose crop is a whole, even number of pixels and whose surface extents are
\* even, so that the integer divisions of the model are the exact quotients
\* the code computes.
Extents == {240, 480, 960}

Size(w, h) == [width |-> w, height |-> h]

FrameSizes == {Size(w, h) : w, h \in Extents} \cup {Size(1280, 720), Size(0, 0)}

SurfaceSizes == {Size(w, h) : w, h \in Extents} \cup {Size(640, 480), Size(0, 480), Size(640, 0)}

Centre == Vec3(LmUnit \div 2, LmUnit \div 2, 0)

RemapLandmarks == {Centre, Vec3(0, 0, 0), Vec3(LmUnit, LmUnit, 0), Vec3(LmUnit \div 4, 3 * (LmUnit \div 4), 0)}

Sized(video, surface) ==
    [videoElement |-> [videoWidth |-> video.width, videoHeight |-> video.height],
     renderDiv |-> [clientWidth |-> surface.width, clientHeight |-> surface.height]]

RemapInit ==
    /\ game = [InitGame(TRUE, TRUE) EXCEPT !.handLandmarker = TRUE, !.gameState = "tracking"]
                  @@ Sized(Video, Canvas)
    /\ animating = TRUE
    /\ setupDone = TRUE
    /\ videoTime = 0
    /\ pc = "idle"
    /\ results = NoResults
    /\ seen = NoSeen
    /\ last = [op |-> "init"]

\* The camera stream or the page layout changes the sizes the next frame reads.
RemapResize ==
    /\ \E video \in FrameSizes, surface \in SurfaceSizes :
          game' = [game EXCEPT !.videoElement = Sized(video, surface).videoElement,
                               !.renderDiv = Sized(video, surface).renderDiv]
    /\ last' = [op |-> "resize"]
    /\ UNCHANGED <<animating, setupDone, videoTime, pc, results, seen>>

\* A frame reads the sizes, computes the parameters and projects a landmark.
RemapProject ==
    /\ \E landmark \in RemapLandmarks :
          LET videoParams == getVisibleVideoParameters(game.videoElement.videoWidth,
                                                       game.videoElement.videoHeight,
                                                       game.renderDiv.clientWidth,
                                                       game.renderDiv.clientHeight)
          IN last' = [op |-> "project", landmark |-> landmark, videoParams |-> videoParams,
                      screen |-> projectLandmarkToScreen(landmark, videoParams,
                                                         game.renderDiv.clientWidth,
                                                         game.renderDiv.clientHeight)]
    /\ UNCHANGED <<game, animating, setupDone, videoTime, pc, results, seen>>

RemapNext == RemapResize \/ RemapProject

SpecRemap == RemapInit /\ [][RemapNext]_vars

\* C19: for a frame and a surface without a zero extent the parameters are a
\* centred cover crop: no offset is negative, twice the offset plus the visible
\* extent is the native extent on each axis, at most one axis is cropped, the
\* visible part has the shape of the surface, and the landmark (0.5, 0.5)
\* projects to the canvas point (0, 0).
C19_CentredCoverCrop ==
    LET v == game.videoElement
        r == game.renderDiv
        p == last.videoParams
    IN (/\ last.op = "project"
        /\ v.videoWidth # 0 /\ v.videoHeight # 0
        /\ r.clientWidth # 0 /\ r.clientHeight # 0)
       => /\ p # NoObject
          /\ p.offsetX >= 0 /\ p.offsetY >= 0
          /\ 2 * p.offsetX + p.visibleWidth = v.videoWidth
          /\ 2 * p.offsetY + p.visibleHeight = v.videoHeight
          /\ p.offsetX = 0 \/ p.offsetY = 0
          /\ p.visibleWidth * r.clientHeight = p.visibleHeight * r.clientWidth
          /\ last.landmark = Centre => last.screen = Vec2(0, 0)

\* C19 happens: a 1280x720 frame on a 640x480 surface is cropped by 160 pixels
\* on each side, and the centre landmark was projected to (0, 0).
C19_CentreOfCroppedFrame ==
    /\ last.op = "project"
    /\ game.videoElement = [videoWidth |-> 1280, videoHeight |-> 720]
    /\ game.renderDiv = [clientWidth |-> 640, clientHeight |-> 480]
    /\ last.videoParams.offsetX = 160
    /\ last.videoParams.visibleWidth = 960
    /\ last.landmark = Centre
    /\ last.screen = Vec2(0, 0)

\* C20: a tick whose video time is not greater than the last processed one
\* detects nothing and changes nothing: a frame is processed only at a video
\* time greater than the last processed one, which then becomes the last
\* processed one; the last processed time grows in no other way and falls
\* only to -1, by a restart or by the start.  So between restarts no video
\* time is processed twice and the processed times increase strictly.
C20_EachVideoTimeOnce ==
    [][/\ (pc = "idle" /\ last'.op \in {"frame", "noParams"})
           => /\ videoTime > game.lastVideoTime
              /\ game'.lastVideoTime = videoTime
              /\ videoTime' = videoTime
       /\ game'.lastVideoTime > game.lastVideoTime
           => pc = "idle" /\ last'.op \in {"frame", "noParams"}
       /\ game'.lastVideoTime < game.lastVideoTime
           => /\ game'.lastVideoTime = -1
              /\ last'.op = "restart" \/ (~setupDone /\ setupDone')
       /\ (pc = "idle" /\ videoTime <= game.lastVideoTime /\ game' # game)
           => last'.op \notin {"frame", "noParams"}]_vars

\* C20 happens: the frames at two video times were processed one after the
\* other, and the tick that comes now finds the video time processed already.
C20_TickFindsFrameProcessed ==
    /\ FrameRuns
    /\ last.op = "global"
    /\ videoTime >= 1
    /\ game.lastVideoTime = videoTime
    /\ ENABLED FrameSkipped
    /\ ~ENABLED FrameBegins

\* No detection has been processed yet.
NothingProcessed ==
    /\ pc = "idle"
    /\ game.lastVideoTime = -1
    /\ \A i \in HandIdx : game.hands[i].landmarks = NoObject

\* C21: no tick processes a detection unless the setup succeeded: while the
\* setup has not succeeded, or after it failed, no stage of the pipeline has
\* run, also after the click that puts the status back to 'tracking'.
C21_NoTickWithoutSetup ==
    (~animating \/ ~game.handLandmarker) => NothingProcessed

\* C21 happens: the setup failed, the click put the status back to
\* 'tracking', and no tick can start.
C21_RestartedAfterFailure ==
    /\ setupDone /\ ~animating
    /\ last.op = "restart"
    /\ game.gameState = "tracking"
    /\ ~ENABLED FrameBegins
    /\ ~ENABLED FrameWithoutParams

\* No node is hovered and no node carries the hover highlight.
NoHover == game.currentlyHoveredNode = NoNode /\ game.hoverStyled = {}

\* The hover stage of the current or of the last frame has run and no request
\* has come since.
HoverStageDone == pc = "global" \/ AfterFrame

\* C22 as stated: in every state, a mode other than drag means no hover.
C22_NoHoverOutsideDrag == game.interactionMode # "drag" => NoHover

\* C22 as the code has it: outside drag mode no node is hovered once the
\* hover stage of a processed frame has run; a mode change away from drag
\* leaves the hover as it is until then.
C22_NoHoverAfterTickOutsideDrag ==
    (HoverStageDone /\ game.interactionMode # "drag") => NoHover

\* C22 happens: the hover stage of a frame outside drag mode has just taken
\* the hover off a node.
C22_TickClearedHover ==
    /\ pc = "global"
    /\ last.op = "hover" /\ last.cleared
    /\ game.interactionMode # "drag"
    /\ NoHover

\* Some hand's fist flag is set.
Gripping == \E i \in HandIdx : game.hands[i].isFistClosed

\* C23: auto-rotation is never active while a hand is gripping: in every
\* state, isAutoRotating means that no hand's fist flag is set.
C23_NoAutoRotationWhileGripping == game.isAutoRotating => ~Gripping

\* ---------------------------------------------------------------------------
\* Voice commands by themselves: the final transcript, lower-cased and
\* trimmed, is a sequence of characters, and String.prototype.includes is a
\* search for a contiguous run.
Letters(mode) ==
    CASE mode = "drag" -> <<"d", "r", "a", "g">>
      [] mode = "rotate" -> <<"r", "o", "t", "a", "t", "e">>
      [] mode = "zoom" -> <<"z", "o", "o", "m">>

Auto == <<"a", "u", "t", "o">>

Rotation == <<"r", "o", "t", "a", "t", "i", "o", "n">>

Space == <<" ">>

autoRotateCommands == {Auto \o Space \o Rotation, Auto \o Rotation, Auto \o Space \o Letters("rotate")}

includes(text, key) ==
    \E i \in 0..(Len(text) - Len(key)) : SubSeq(text, i + 1, i + Len(key)) = key

\* What _handleSpeechCommand finds in a transcript.
Heard(text) ==
    [auto |-> \E cmd \in autoRotateCommands : includes(text, cmd),
     keys |-> {key \in Modes : includes(text, Letters(key))}]

Transcripts ==
    {Letters(mode) : mode \in Modes} \cup autoRotateCommands
      \cup {<<"p", "l", "e", "a", "s", "e", " ">> \o Letters("drag"),
            Letters("drag") \o <<"o", "n">>,
            Letters("zoom") \o Space \o Letters("drag"),
            Letters("rotate") \o Space \o Letters("zoom"),
            Letters("zoom") \o <<" ", "i", "n">>,
            Rotation,
            <<"h", "e", "l", "l", "o">>}

SpeechInit ==
    /\ \E hasGraph \in BOOLEAN :
          game = [InitGame(hasGraph, hasGraph) EXCEPT !.handLandmarker = TRUE,
                                                      !.gameState = "tracking"]
    /\ animating = TRUE
    /\ setupDone = TRUE
    /\ videoTime = 0
    /\ pc = "idle"
    /\ results = NoResults
    /\ seen = NoSeen
    /\ last = [op |-> "init"]

\* The recogniser delivers a final transcript.
SpeechHeard ==
    /\ \E text \in Transcripts :
          /\ game' = Settled(handleSpeechCommand(Quiet(game), Heard(text)))
          /\ last' = [op |-> "speech", text |-> text,
                      mode |-> game.interactionMode, auto |-> game.isAutoRotating]
    /\ UNCHANGED <<animating, setupDone, videoTime, pc, results, seen>>

SpecSpeech == SpeechInit /\ [][SpeechHeard]_vars

\* The mode words a transcript contains.
ModeWords(text) == {key \in Modes : includes(text, Letters(key))}

\* C24: a final transcript that contains one of the auto-rotate phrases
\* toggles auto-rotation (there being a graph to rotate) and leaves the mode
\* as it is, also when it contains 'rotate'; any other transcript that
\* contains a mode word switches to that mode (to the last of drag, rotate,
\* zoom that it contains), and one that contains none changes nothing.
C24_VoiceCommands ==
    last.op = "speech" =>
       IF \E cmd \in autoRotateCommands : includes(last.text, cmd)
       THEN /\ game.interactionMode = last.mode
            /\ game.forceGraph => game.isAutoRotating = ~last.auto
       ELSE /\ \A key \in Modes : ModeWords(last.text) = {key} => game.interactionMode = key
            /\ "zoom" \in ModeWords(last.text) => game.interactionMode = "zoom"
            /\ ModeWords(last.text) = {"drag", "rotate"} => game.interactionMode = "rotate"
            /\ ModeWords(last.text) = {} => game.interactionMode = last.mode
                                              /\ game.isAutoRotating = last.auto

\* C24 happens: 'auto rotate', which contains 'rotate', was heard in drag
\* mode; auto-rotation went on and the mode is still drag.
C24_AutoRotateHeardInDrag ==
    /\ last.op = "speech"
    /\ last.text = Auto \o Space \o Letters("rotate")
    /\ includes(last.text, Letters("rotate"))
    /\ last.mode = "drag" /\ ~last.auto
    /\ game.interactionMode = "drag"
    /\ game.isAutoRotating

\* C25: hand i becomes the owner of a drag only in its own stage of a frame
\* on which its pinch flag goes from false to true; a hand whose pinch is
\* held acquires nothing, whatever comes into range or is released.
C25_DragOnlyOnRisingEdge ==
    [][\A i \in HandIdx :
          (/\ game'.draggedNodeInfo.node # NoNode
           /\ game'.draggedNodeInfo.handIndex = i
           /\ game.draggedNodeInfo.node = NoNode \/ game.draggedNodeInfo.handIndex # i)
          => /\ pc = StageOf(i)
             /\ ~game.hands[i].isPinching
             /\ game'.hands[i].isPinching]_vars

\* C25 happens: hand 1 has just kept its pinch closed on a frame on which
\* nothing is held and a node lies within pick range of the pinch point, and
\* it holds nothing.
C25_HeldPinchNearFreeNode ==
    /\ last.op = "hand1" /\ ~last.rise
    /\ game.interactionMode = "drag"
    /\ game.hands[1].isPinching
    /\ game.draggedNodeInfo.node = NoNode
    /\ PickCandidates(PinchPoint(game.hands[1])) # {}

\* The stored baseline does not allow a zoom step: there is none, or its
\* wrist distance is zero or below 0.001.
NoUsableBaseline ==
    \/ Falsy(game.initialZoomWristDistance)
    \/ Falsy(game.initialZoomCameraDistance)
    \/ game.initialZoomWristDistance * 1000 < LmUnit

\* C26: the zoom step of a frame in zoom mode leaves the camera where it is
\* when either hand is missing, and then there is no baseline afterwards, and
\* when both hands are there but no usable baseline is stored, and then the
\* baseline afterwards holds the camera distance of this frame.
C26_NoZoomWithoutBaseline ==
    [][(pc = "global" /\ game.interactionMode = "zoom")
         => /\ (\E i \in HandIdx : ~results[i] \/ game.hands[i].landmarks = NoObject)
                 => /\ game'.cameraDistance = game.cameraDistance
                    /\ game'.initialZoomWristDistance = NoNumber
                    /\ game'.initialZoomCameraDistance = NoNumber
            /\ (/\ \A i \in HandIdx : results[i] /\ game.hands[i].landmarks # NoObject
                /\ game.forceGraph
                /\ NoUsableBaseline)
                 => /\ game'.cameraDistance = game.cameraDistance
                    /\ game'.initialZoomCameraDistance = game.cameraDistance
                    /\ game'.initialZoomWristDistance # NoNumber]_vars

\* C26 happens: the camera has been zoomed away from where it started, and
\* the frame that just ended lost a hand: the baseline is gone and the camera
\* is where the zoom left it.
C26_HandLostAfterZoom ==
    /\ AfterFrame /\ last.baseline
    /\ game.interactionMode = "zoom"
    /\ HandMissing
    /\ ~ZoomBaseline
    /\ game.cameraDistance # InitialCameraDistance

\* The distance between the wrists of the two hands of g.
WristDistance(g) ==
    Sqrt(get3DDistanceSq(g.hands[0].landmarks.wrist, g.hands[1].landmarks.wrist))

\* initialCameraDistance * (currentWristDistance / initialWristDistance)^2 in
\* whole units, brought into [100, 1100].
ZoomTarget(initC, initW, w) ==
    LET scaled == (initC * w * w) \div (initW * initW)
    IN IF scaled < 100 THEN 100 ELSE IF scaled > 1100 THEN 1100 ELSE scaled

C28_FistRotationByDelta ==
    [][\A i \in HandIdx :
          (/\ pc = StageOf(i)
           /\ game.interactionMode = "rotate"
           /\ game'.hands[i].isFistClosed)
          => LET fistScreenPos == Project(game'.hands[i].landmarks.wrist)
                 lastPos == game.hands[i].lastFistScreenPos
             IN /\ game'.hands[i].lastFistScreenPos = fistScreenPos
                /\ IF game.hands[i].isFistClosed
                   THEN game.forceGraph
                          => game'.orbitDelta = Vec2(fistScreenPos.x - lastPos.x,
                                                     fistScreenPos.y - lastPos.y)
                   ELSE game'.orbitDelta = game.orbitDelta]_vars

\* C28 happens: hand 0 kept its fist closed while it moved, the camera got
\* the step of that movement, and the reference is where the wrist is now.
C28_HeldFistTurnedCamera ==
    /\ last.op = "hand0"
    /\ game.interactionMode = "rotate"
    /\ game.hands[0].isFistClosed
    /\ game.orbitDelta # NoObject
    /\ game.orbitDelta # Vec2(0, 0)
    /\ game.hands[0].lastFistScreenPos = Project(game.hands[0].landmarks.wrist)

\* ---------------------------------------------------------------------------
\* The camera orbit under fist rotation: _handleFistRotation with the polar
\* angle of the camera offset, in milliradians.  The azimuth plays no part in
\* what happens at the poles and is left out.
MaxOrbitTicks == 3

PI_MRAD == 3142

ROTATION_SENSITIVITY_Y_MRAD == 4

\* Math.acos of the cosine of phi: the polar angle of the position that
\* offset.set(...) computes from phi, for phi within (-pi, 2 pi).
PolarOf(phi) ==
    IF phi < 0 THEN 0 - phi
    ELSE IF phi > PI_MRAD THEN 2 * PI_MRAD - phi
    ELSE phi

\* phi as offset.set(...) receives it: the polar angle of the present offset
\* less deltaY * ROTATION_SENSITIVITY_Y.
steppedPhi(polar, deltaY) == polar - deltaY * ROTATION_SENSITIVITY_Y_MRAD

\* Fist poses at heights across the canvas.
OrbitAnchors == {Vec2(0, y) : y \in {-100, 0, 50, 100, 300}}

OrbitInit ==
    /\ game = [InitGame(TRUE, TRUE) EXCEPT !.handLandmarker = TRUE,
                                           !.gameState = "tracking",
                                           !.interactionMode = "rotate"]
                  @@ [cameraPolar |-> PI_MRAD \div 2]
    /\ animating = TRUE
    /\ setupDone = TRUE
    /\ videoTime = 0
    /\ pc = "idle"
    /\ results = NoResults
    /\ seen = NoSeen
    /\ last = [op |-> "init"]

\* A frame in rotate mode on which hand 0 shows a fist or an open hand.
OrbitTick ==
    /\ videoTime < MaxOrbitTicks
    /\ videoTime' = videoTime + 1
    /\ \E a \in OrbitAnchors, shape \in {"fist", "pinch"} :
          LET g1 == processHand(Quiet(game), 0, Pose(a, shape))
              turned == g1.orbitDelta # NoObject
              phi == IF turned THEN steppedPhi(game.cameraPolar, g1.orbitDelta.y)
                     ELSE game.cameraPolar
          IN /\ game' = Settled([g1 EXCEPT !.cameraPolar = PolarOf(phi)])
             /\ last' = [op |-> "orbitTick", turned |-> turned, phi |-> phi,
                         deltaY |-> IF turned THEN g1.orbitDelta.y ELSE 0]
    /\ results' = [i \in HandIdx |-> i = 0]
    /\ UNCHANGED <<animating, setupDone, pc, seen>>

\* A frame on which hand 0 is missing.
OrbitLoss ==
    /\ videoTime < MaxOrbitTicks
    /\ videoTime' = videoTime + 1
    /\ game' = Settled(processHand(Quiet(game), 0, NoObject))
    /\ last' = [op |-> "orbitLoss"]
    /\ results' = NoResults
    /\ UNCHANGED <<animating, setupDone, pc, seen>>

OrbitNext == OrbitTick \/ OrbitLoss

SpecOrbit == OrbitInit /\ [][OrbitNext]_vars

\* C29: after every rotation step by a fist the polar angle from which the
\* camera is placed lies strictly between the poles, however far the hand
\* moved up or down on that frame.
C29_PolarAngleBetweenPoles ==
    (last.op = "orbitTick" /\ last.turned) => (last.phi > 0 /\ last.phi < PI_MRAD)

\* Screen distance, squared, from the index fingertip of hand i to node n.
HoverDistanceSq(i, n) ==
    distanceToSquared(Project(game.hands[i].landmarks.indexTip),
                      worldToScreen(game.nodes[n].pos))

\* The pairs of a tracked hand that does not own the drag and a positioned
\* node strictly less than 40 px from its index fingertip.
HoverCandidates ==
    {c \in HandIdx \X NodeIds :
        /\ game.hands[c[1]].landmarks # NoObject
        /\ game.draggedNodeInfo.handIndex # c[1]
        /\ game.nodes[c[2]].pos # NoObject
        /\ HoverDistanceSq(c[1], c[2]) < 40 * 40}

\* C30: after a processed frame in drag mode the hovered node is a node of
\* the nearest pair of a tracked hand that does not own the drag and a
\* positioned node strictly under 40 px from its index fingertip, and it is
\* the one node that carries the highlight where the labels of the nodes can
\* be reached; there being no such pair, no node is hovered.  The owner of the
\* drag is in no pair.
C30_HoverIsNearestNode ==
    (AfterFrame /\ game.interactionMode = "drag") =>
        IF HoverCandidates = {}
        THEN NoHover
        ELSE \E c \in HoverCandidates :
               /\ game.currentlyHoveredNode = c[2]
               /\ game.hoverStyled = (IF game.nodeLabels THEN {c[2]} ELSE {})
               /\ \A d \in HoverCandidates :
                      HoverDistanceSq(c[1], c[2]) <= HoverDistanceSq(d[1], d[2])

\* C30 happens: after a frame in drag mode one hand holds a node and the node
\* hovered is another one, near the index fingertip of the other hand.
C30_HoverBesideDrag ==
    /\ AfterFrame /\ game.interactionMode = "drag"
    /\ game.draggedNodeInfo.node # NoNode
    /\ game.currentlyHoveredNode # NoNode
    /\ game.currentlyHoveredNode # game.draggedNodeInfo.node

\* The place of each stage in a frame.
StageRank == [hand0 |-> 1, hand1 |-> 2, hover |-> 3, global |-> 4]

\* The stages in which the controller of a mode runs: the drag and the rotate
\* controller run hand by hand, the zoom controller in the global logic.
ControllerStages(mode) == IF mode = "zoom" THEN {"global"} ELSE {"hand0", "hand1"}

\* What the hover highlighter writes, and all the rest of the engine state.
HoverPart(g) == <<g.currentlyHoveredNode, g.hoverStyled>>

NonHoverPart(g) == [g EXCEPT !.currentlyHoveredNode = NoNode, !.hoverStyled = {}]

\* C31 as stated: when the hover highlighter runs, every stage of the
\* controller of the active mode has run already.
C31_HoverAfterController ==
    pc = "hover" =>
        \A stage \in ControllerStages(game.interactionMode) :
            StageRank[stage] < StageRank["hover"]

\* C31 as the code has it: the stages of a frame run in the order hand 0,
\* hand 1, hover highlighter, global logic.  The hover highlighter runs after
\* the drag or rotate controller has handled both hands, and writes nothing
\* but the hover; the zoom controller runs after the hover highlighter, in
\* the global logic, which does nothing in the other modes; the hover is
\* written in no other stage and the camera distance in none but the last.
C31_StagesInOrder ==
    /\ [][/\ pc' = "hand1" => pc = "hand0"
          /\ pc' = "hover" => pc = "hand1"
          /\ pc' = "global" => pc = "hover"
          /\ (pc # "idle" /\ pc' = "idle") => pc = "global"]_vars
    /\ [][/\ pc = "hover" => NonHoverPart(game') = NonHoverPart(game)
          /\ pc \in {"hand0", "hand1", "global"} => HoverPart(game') = HoverPart(game)
          /\ (pc = "global" /\ game.interactionMode # "zoom") => game' = game
          /\ (pc # "idle" /\ game'.cameraDistance # game.cameraDistance)
                => pc = "global" /\ game.interactionMode = "zoom"]_vars

\* C31 happens: in zoom mode with both hands tracked the hover highlighter
\* has run and the zoom controller is still to run.
C31_HoverRanBeforeZoom ==
    /\ pc = "global"
    /\ last.op = "hover"
    /\ game.interactionMode = "zoom"
    /\ \A i \in HandIdx : results[i]
    /\ ENABLED GlobalLogic

\* The engine state but for the time of the last processed frame and the
\* requests handed to the scene during a tick.
BesidesTimestamp(g) == [Quiet(g) EXCEPT !.lastVideoTime = -1]

\* C32: a tick that gets no projection parameters stores the video time as
\* the last processed one and changes nothing else: no hand slot, gesture
\* flag, drag, pinned node, hover, zoom baseline, mode, camera distance or
\* status, whatever the detector found, and no stage of the pipeline runs.
C32_TickWithoutParamsIsNoOp ==
    [][(pc = "idle" /\ last'.op = "noParams")
         => /\ BesidesTimestamp(game') = BesidesTimestamp(game)
            /\ game'.lastVideoTime = videoTime
            /\ pc' = "idle"]_vars

\* C32 happens: a tick without projection parameters on which the detector
\* found no hand has left a pinching hand, its drag and the pinned node as
\* they were.
C32_DragOutlivedTickWithoutParams ==
    /\ last.op = "noParams"
    /\ \A i \in HandIdx : ~results[i]
    /\ game.lastVideoTime = videoTime
    /\ game.draggedNodeInfo.node # NoNode
    /\ game.hands[game.draggedNodeInfo.handIndex].isPinching
    /\ Pinned # {}

\* C33: once the status is 'error' it stays 'error', and no frame is
\* processed, until the click that restarts: no other step takes the status
\* from 'error' to another value.
C33_ErrorUntilRestart ==
    /\ [][(game.gameState = "error" /\ game'.gameState # "error")
            => last'.op = "restart"]_vars
    /\ [](game.gameState = "error" => pc = "idle")

----------------------------------------------------------------------------
\* C34: in every reachable state the nodes with a pinned position are exactly
\* the node of draggedNodeInfo: none when it is absent, that one when present.
C34_PinnedIsDragged ==
    Pinned = {n \in NodeIds : n = game.draggedNodeInfo.node}

\* C34 happens: hand 1 owns the drag and has moved its node away from where
\* the forces hold it; that node is the only pinned one.
C34_DraggedNodeMovedPinned ==
    /\ last.op = "hand1" /\ results[1]
    /\ game.draggedNodeInfo.handIndex = 1
    /\ \E n \in NodeIds :
          /\ game.draggedNodeInfo.node = n
          /\ game.nodes[n].pos # NodeHome[n]
          /\ game.nodes[n].fixed = game.nodes[n].pos
          /\ Pinned = {n}

\* C38: in every reachable state the owner index of draggedNodeInfo is -1, 0
\* or 1, and the node is absent exactly when the owner index is -1.
C38_OwnerAndNodeTogether ==
    /\ game.draggedNodeInfo.handIndex \in {-1, 0, 1}
    /\ game.draggedNodeInfo.node = NoNode <=> game.draggedNodeInfo.handIndex = -1

\* C38 happens: the stage of hand 1 saw its pinch begin and picked a node, so
\* owner and node were set in one step.
C38_SecondHandPicked ==
    /\ last.op = "hand1" /\ last.rise
    /\ game.draggedNodeInfo.handIndex = 1
    /\ game.draggedNodeInfo.node # NoNode

----------------------------------------------------------------------------
\* C35: in every reachable state a hand whose landmarks are absent has its
\* pinch flag and its fist flag false, and a flag becomes true only in the
\* stage of its own hand on a frame on which the detector found that hand.
C35_FlagsOnlyOnTrackedHand ==
    /\ [](\A i \in HandIdx :
            game.hands[i].landmarks = NoObject
               => ~game.hands[i].isPinching /\ ~game.hands[i].isFistClosed)
    /\ [][\A i \in HandIdx :
            (\/ ~game.hands[i].isPinching /\ game'.hands[i].isPinching
             \/ ~game.hands[i].isFistClosed /\ game'.hands[i].isFistClosed)
            => pc = StageOf(i) /\ results'[i]]_vars

\* C35 happens: the detector lost hand 0 while it was pinching and holding a
\* node (only a release or a move re-heats), and the stage of hand 0 left the
\* hand without landmarks and without flags.
C35_PinchingHandLost ==
    /\ last.op = "hand0" /\ ~results[0]
    /\ game.reheat
    /\ game.hands[0].landmarks = NoObject
    /\ ~game.hands[0].isPinching /\ ~game.hands[0].isFistClosed

----------------------------------------------------------------------------
\* Hand i is in drag mode with its pinch point within pick range of a node.
PinchInRange(i) ==
    /\ game.interactionMode = "drag"
    /\ game.hands[i].isPinching
    /\ PickCandidates(PinchPoint(game.hands[i])) # {}

\* The stage of hand 1 sees its pinch begin within pick range of a node on a
\* frame on which the stage of hand 0 saw the same.
BothPinchesBegin ==
    /\ pc = "hand1" /\ last.op = "hand0" /\ last.rise
    /\ PinchInRange(0)
    /\ ~game.hands[1].isPinching
    /\ PinchInRange(1)'

\* C36: when the pinches of both hands begin on the same frame in drag mode,
\* each within pick range of a node, hand 0 owns a drag after the frame and
\* hand 1 has acquired none.
C36_FirstHandWins ==
    [][BothPinchesBegin
         => /\ game'.draggedNodeInfo.handIndex = 0
            /\ game'.draggedNodeInfo.node # NoNode
            /\ game'.draggedNodeInfo = game.draggedNodeInfo]_vars

----------------------------------------------------------------------------
\* C37: in every reachable state at most one node carries the hover highlight
\* and the nodes that carry it are exactly the node of currentlyHoveredNode:
\* none when it is absent, that one when present.
C37_HighlightIsHoveredNode ==
    /\ Cardinality(game.hoverStyled) <= 1
    /\ game.hoverStyled = {n \in NodeIds : n = game.currentlyHoveredNode}

====
